---- MODULE Spec2Model ----
(***************************************************************************)
(* Verification model of the peerbit replicated-log substrate.             *)
(*                                                                         *)
(*   Part 1  Log         append / join / cutLog on content-addressed logs  *)
(*                       (packages/transport/stream-interface/src/         *)
(*                        messages.ts, class Log)                          *)
(***************************************************************************)
EXTENDS Integers, Sequences, FiniteSets, TLC

(***************************************************************************)
(* Bounds of the model.                                                    *)
(***************************************************************************)
MaxEntries == 3
MaxCut == 2
MaxReplicas == 2
MaxMsgs == 2
MaxSeen == 1

\* index.ts: export const WAIT_FOR_ROLE_MATURITY = 5000
WAIT_FOR_ROLE_MATURITY == 5000

VARIABLES
    blocks,     \* the block store: every entry ever created by Entry.create
    logs,       \* Log instances: [entries, heads, nexts, length, time]
    joinFailed, \* history: the latest operation on a log was a join that threw
    lastCut,    \* history: the cutLog call of the latest operation on a log:
                \* [log, size, before], the log as it was when cutLog was called
    now,        \* +new Date(), in milliseconds
    openTime,   \* SharedLog.openTime of every node (-1: not opened)
    roles,      \* the role every peer has announced: [factor, timestamp] or NoRole
    ring,       \* SharedLog._sortedPeersCache of every node: a sequence of rects
    linked,     \* the _sortedPeersCache of one node as the yallist it is: head,
                \* tail, length and the nodes with their prev and next
    lastEval,   \* the latest findLeaders call: its inputs and the leaders returned
    latestRoleMessages, \* SharedLog.latestRoleMessages of every node: key -> timestamp
    seenRole,   \* history: the role carried by the message that set latestRoleMessages
    roleMsgs,   \* ResponseRoleMessages in flight: [from, to, role, timestamp]
    roleHandlers, \* the ResponseRoleMessage handlers every node has suspended at an await
    unsubscribed, \* the peers whose unsubscription event every node has handled
    seenCache,  \* DirectStream: the bounded set of message ids every peer has seen
    wire,       \* DirectStream: copies of data messages in flight: [dst, from, msg]
    published,  \* the message ids published so far
    dropped,    \* history: the message ids of which every peer has dropped a copy
    processed,  \* history: the times every peer has processed a message id
    evicted,    \* history: the times every peer has evicted a message id
    have,       \* the hashes of the entries in the log of every peer
    pendingDeletes, \* SharedLog._pendingDeletes: hash -> the prune call that set it (0: none)
    pruneRounds, \* the checked prunes every peer has started for every hash
    pruneOutcome, \* history: how the latest checked prune of a hash was settled
    existCounter, \* the existCounter set of every checked prune of a hash
    pruneCalls, \* the prune calls with an onNewPeer listener: [hashes, awaits]
    pendingIHave, \* SharedLog._pendingIHave: the chain of every hash, as tuples
                \* <<hash, requesting peer, position in the chain, timer has fired>>
    pruneMsgs,  \* RequestIPrune and ResponseIPrune in flight: [type, from, to, hashes]
    pruneHandlers, \* the ResponseIPrune handlers suspended at await this.findLeaders
    confirmed,  \* history: the peers whose response for a hash was handled as a leader
    creator,    \* the peer that appended every entry (0: not appended yet)
    entryNext,  \* entry.next of every entry
    unsent,     \* appends between log.append and rpc.send: pairs <<peer, hash>>
    headMsgs,   \* ExchangeHeadsMessages in flight: [from, to, heads, mode], with
                \* the delivery mode [type, redundancy, to] they were sent with
    gidPeersHistory, \* SharedLog._gidPeersHistory of every peer, for the one gid
    distributeQueued, \* SharedLog._queue of every peer holds a _distribute
    distributeTimer, \* the timer of onRoleChange that calls distribute is armed
    closed,     \* Program.closed of every peer
    requestHandlers, \* the RequestIPrune handlers suspended at await this.isLeader
    fns,        \* the handlers every peer has bound and registered on pubsub:
                \* [onSubscriptionFn, onUnsubscriptionFn, bound, registered]
    index,      \* EntryIndex.properties.index: the shallow entries, one per hash
    length,     \* EntryIndex._length
    insertionPromises, \* EntryIndex.insertionPromises: the hashes with a promise
    putHandlers, \* the EntryIndex.put calls suspended at an await
    putCalls,   \* the number of EntryIndex.put calls made so far
    putHistory, \* history: of every hash the times _length was raised for it, the
                \* index writes of put, whether put was called for it, whether a
                \* put of it has completed, and whether a put of it was called
                \* after another one had completed or after it was deleted
    lastDelete, \* history: the entry the latest step removed by EntryIndex.delete,
                \* and the head flags before it
    canReplicate, \* SharedLog._canReplicate of every peer: whether the option
                \* is set, and the public keys the function admits
    totalParticipation, \* SharedLog._totalParticipation of every peer
    gateLast,   \* history: the latest call of _modifyReplicators in which
                \* canReplicate was called, with the ring and the total
                \* participation before and after it
    signedMsg,  \* the message object that is followed: its header (id, expires,
                \* to, signatures), its body, seenCounter and _verified
    lastCall,   \* history: the latest call of sign or verify on the message,
                \* with the message before and after it and what it returned
    intact,     \* history: the body was not altered since the first signature
    edges,      \* the streams between the stream nodes
    routes,     \* the routes of the sender: the next hops of every target
    learned,    \* history: the next hop the latest seek has learned per target
    lastWrite,  \* history: the latest publish or seek of the sender, with the
                \* neighbours it wrote to and the routes it knew
    lastCover,  \* history: the latest call of getReplicatorUnion, with the ring
                \* it walked, where it started and the keys it returned
    lastTraverse, \* history: the latest call of Log.traverse, with the log, the
                \* roots and the amount it was given and what it returned
    lastCompare, \* history: the latest pair of entries Entry.compare was called
                \* with, and what it returned for the pair in both orders
    lastSort,   \* history: the latest array that was sorted with Entry.compare,
                \* before and after
    deleteHandlers, \* the EntryIndex.delete calls suspended at an await
    updaters,   \* the privateUpdateNextHeadProperty loops suspended at an await
    removed,    \* history: the hashes that the index.del of a delete removed
    lastPrune,  \* history: the latest call of prune and the promises it returned
    queue,      \* SharedLog._queue of every peer, pass by pass, and the armed timers
    passHistory, \* history: the changes of the ring and the passes that started
    passCache   \* history: the leader set the latest _distribute pass of every
                \* peer has cached for the gid, NoPass before the first one

varsLog == <<blocks, logs, joinFailed, lastCut>>
varsLeaders == <<now, openTime, roles, ring, lastEval>>
varsList == <<linked>>
varsClose == <<closed, requestHandlers>>
varsPass == <<passCache>>
varsMessage == <<signedMsg, lastCall, intact>>
varsRoutes == <<edges, routes, learned, lastWrite>>
varsCalls == <<lastCover, lastTraverse, lastCompare, lastSort, deleteHandlers, updaters, removed, lastPrune, queue, passHistory>>
varsGate == <<canReplicate, totalParticipation, gateLast>>
varsIndex == <<index, length, insertionPromises, putHandlers, putCalls, putHistory,
               lastDelete>>
varsRole == <<latestRoleMessages, seenRole, roleMsgs, roleHandlers, unsubscribed>>
varsStream == <<seenCache, wire, published, dropped, processed, evicted>>
varsPrune == <<have, pendingDeletes, pruneRounds, pruneOutcome, existCounter, pruneCalls,
               pendingIHave, pruneMsgs, pruneHandlers, confirmed>>
varsShared == <<creator, entryNext, unsent, headMsgs, gidPeersHistory,
                distributeQueued, distributeTimer>>
vars == <<blocks, logs, joinFailed, lastCut, now, openTime, roles, ring, lastEval, linked,
          latestRoleMessages, seenRole, roleMsgs, roleHandlers, unsubscribed,
          seenCache, wire, published, dropped, processed, evicted,
          have, pendingDeletes, pruneRounds, pruneOutcome, existCounter, pruneCalls,
          pendingIHave, pruneMsgs, pruneHandlers, confirmed,
          creator, entryNext, unsent, headMsgs, gidPeersHistory,
          distributeQueued, distributeTimer, closed, requestHandlers, fns,
          index, length, insertionPromises, putHandlers, putCalls, putHistory,
          lastDelete, passCache, canReplicate, totalParticipation, gateLast,
          signedMsg, lastCall, intact, edges, routes, learned, lastWrite,
          lastCover, lastTraverse, lastCompare, lastSort, deleteHandlers, updaters, removed, lastPrune, queue, passHistory>>

\* the variables outside of each part of the model
outsideLog == <<varsLeaders, varsList, varsIndex, varsMessage, varsRoutes, varsCalls, varsGate, varsPass, varsRole, varsStream, varsPrune, varsShared,
                varsClose, fns>>
outsideOpen == <<varsLog, varsList, varsIndex, varsMessage, varsRoutes, varsCalls, varsGate, varsPass, varsStream, varsPrune, varsShared, varsClose>>
outsideRing == <<outsideOpen, fns>>
outsideModify == <<varsLog, varsList, varsIndex, varsMessage, varsRoutes, varsCalls, canReplicate, varsPass, varsStream, varsPrune,
                   varsShared, varsClose, fns>>
outsideStream == <<varsLog, varsLeaders, varsList, varsIndex, varsMessage, varsRoutes, varsCalls, varsGate, varsPass, varsRole, varsPrune, varsShared,
                   varsClose, fns>>
outsidePrune == <<varsLog, varsList, varsIndex, varsMessage, varsRoutes, varsCalls, varsGate, varsPass, varsRole, varsStream, varsShared, varsClose, fns>>
outsideDistribute == <<varsLog, varsList, varsIndex, varsMessage, varsRoutes, varsCalls, varsGate, varsStream, lastEval, seenRole,
                       roleHandlers, unsubscribed,
                       existCounter, pruneHandlers, confirmed, varsClose, fns>>
outsideSharedOpen == <<varsLog, varsList, varsIndex, varsMessage, varsRoutes, varsCalls, varsGate, varsPass, varsStream, lastEval, seenRole,
                       roleHandlers, unsubscribed,
                       existCounter, pruneHandlers, confirmed, varsClose>>
outsideShared == <<outsideSharedOpen, fns>>
outsidePruneModify == <<varsLog, varsList, varsIndex, varsMessage, varsRoutes, varsCalls, canReplicate, varsPass, varsRole,
                        varsStream, varsShared, varsClose, fns>>
outsideOpenRole == <<varsLog, varsList, varsIndex, varsMessage, varsRoutes, varsCalls, varsPass, varsStream, lastEval, seenRole,
                     roleHandlers, unsubscribed, canReplicate,
                     existCounter, pruneHandlers, confirmed, varsClose>>
outsideRole == <<outsideOpenRole, fns>>
outsideMessage == <<varsLog, varsLeaders, varsList, varsIndex, varsGate, varsPass, varsRole,
                    varsStream, varsPrune, varsShared, varsClose, fns, varsRoutes, varsCalls>>
outsideRoutes == <<varsLog, varsLeaders, varsList, varsIndex, varsGate, varsPass, varsRole,
                   varsStream, varsPrune, varsShared, varsClose, fns, varsMessage, varsCalls>>
outsideList == <<varsLog, varsLeaders, varsIndex, varsMessage, varsRoutes, varsCalls, varsGate, varsPass, varsRole, varsStream, varsPrune, varsShared,
                 varsClose, fns>>

(***************************************************************************)
(* Helpers                                                                 *)
(***************************************************************************)
Max2(a, b) == IF a >= b THEN a ELSE b
Min2(a, b) == IF a <= b THEN a ELSE b

RECURSIVE SetToSeq(_)
SetToSeq(S) ==
    IF S = {} THEN <<>>
    ELSE LET x == CHOOSE y \in S : TRUE IN <<x>> \o SetToSeq(S \ {x})

SeqToSet(s) == {s[i] : i \in 1..Len(s)}

ReverseSeq(s) == [i \in 1..Len(s) |-> s[Len(s) + 1 - i]]

(***************************************************************************)
(* Part 1: Entry and Log                                                   *)
(*                                                                         *)
(* An entry is identified by its content (a content hash is an injective   *)
(* function of the content): the model uses the content record itself as   *)
(* the hash, so `next' and `refs' are sets of entries.                     *)
(***************************************************************************)
Logs == 1..2

\* The identity of log l (its clock id): every Log instance has its own key.
Identity(l) == l

\* pointerCount options of Log.append
PointerCounts == {1, 4}

\* recycle.maxOplogLength of the logs (0: no recycle option); log 2 recycles
RecycleOf(l) == IF l = 2 THEN 2 ELSE 0

\* Clock.compare(a, b) of lamport-clock: the distance of the Lamport times
ClockCompare(a, b) == a.time - b.time

\* Entry.compare: the distance of the clocks, and for distance 0
\* aClock.id < bClock.id ? -1 : 1
EntryCompare(a, b) ==
    LET distance == ClockCompare(a, b)
    IN IF distance = 0 THEN (IF a.id < b.id THEN -1 ELSE 1) ELSE distance

\* Array.sort(sortFn): ascending by EntryCompare (stable; duplicates adjacent)
RECURSIVE SortAsc(_)
SortAsc(s) ==
    IF Len(s) = 0 THEN <<>>
    ELSE LET i == CHOOSE j \in 1..Len(s) :
                    \A k \in 1..Len(s) :
                        \/ s[k] = s[j]
                        \/ EntryCompare(s[j], s[k]) < 0
                        \/ (EntryCompare(s[k], s[j]) >= 0 /\ j <= k)
             rest == [k \in 1..(Len(s) - 1) |-> IF k < i THEN s[k] ELSE s[k + 1]]
         IN <<s[i]>> \o SortAsc(rest)

SortDesc(s) == ReverseSeq(SortAsc(s))

\* maxClockTimeReducer over a set of entries, starting from 0
MaxClockTime(S) ==
    IF S = {} THEN 0 ELSE CHOOSE t \in {e.time : e \in S} : \A e \in S : e.time <= t

EmptyLog == [entries |-> {}, heads |-> {}, nexts |-> {}, length |-> 0, time |-> 0]

NoCut == [log |-> 0, size |-> 0, before |-> EmptyLog]

\* this._nextsIndex[a] = e  (a later assignment to the same key replaces it)
NextsPut(idx, a, e) == {p \in idx : p[1] # a} \cup {<<a, e>>}

RECURSIVE NextsPutAll(_, _, _)
NextsPutAll(idx, as, e) ==
    IF as = {} THEN idx
    ELSE LET a == CHOOSE x \in as : TRUE
         IN NextsPutAll(NextsPut(idx, a, e), as \ {a}, e)

NextsHas(idx, a) == \E p \in idx : p[1] = a

\* Log.findHeads: the entries of a collection no entry of the collection points to
FindHeads(S) == {e \in S : \A o \in S : e \notin o.next}

\* Log.traverse(rootEntries, amount): the entries in visiting order
RECURSIVE TraverseLoop(_, _, _, _, _, _)
TraverseLoop(log, stack, traversed, result, count, amount) ==
    IF Len(stack) = 0 \/ ~(count < amount \/ amount < 0) THEN result
    ELSE LET entry == Head(stack)
             result2 == IF entry \in SeqToSet(result) THEN result
                        ELSE Append(result, entry)
             traversed2 == traversed \cup {entry}
             defined == {n \in entry.next : n \in log.entries /\ n \notin traversed2}
             stack2 == SortDesc(SetToSeq(defined) \o Tail(stack))
         IN TraverseLoop(log, stack2, traversed2 \cup defined, result2,
                         count + 1, amount)

Traverse(log, roots, amount) ==
    TraverseLoop(log, SortDesc(roots), {}, <<>>, 0, amount)

\* get heads(): the heads sorted, newest first
HeadsSeq(log) == SortDesc(SetToSeq(log.heads))

\* get values(): every entry reachable from the heads, oldest first
Values(log) == ReverseSeq(Traverse(log, HeadsSeq(log), -1))

\* Array.slice(-size)
SliceLast(s, size) ==
    IF size = 0 \/ size >= Len(s) THEN s
    ELSE [i \in 1..size |-> s[Len(s) - size + i]]

\* Log.cutLog(size)
CutLogOp(log, size) ==
    LET tmp == SliceLast(Values(log), size)
        kept == SeqToSet(tmp)
    IN [log EXCEPT !.entries = kept,
                   !.heads = FindHeads(kept),
                   !.length = Cardinality(kept)]

\* getEveryPow2(maxDistance) over `all'
RECURSIVE EveryPow2(_, _, _)
EveryPow2(all, i, maxDistance) ==
    IF i > maxDistance THEN {}
    ELSE {all[Min2(i - 1, Len(all) - 1) + 1]} \cup EveryPow2(all, i * 2, maxDistance)

\* Mutant of AppendEntry: the clock is not ticked before the entry is created
AppendEntry_NoTick(log, l, pointerCount) ==
    LET newTime == Max2(log.time, MaxClockTime(log.heads))
        all == Traverse(log, HeadsSeq(log), Max2(pointerCount, Cardinality(log.heads)))
        pow2 == EveryPow2(all, 1, Min2(pointerCount, Len(all)))
        references == IF Len(all) < pointerCount /\ Len(all) > 0
                      THEN pow2 \cup {all[Len(all)]} ELSE pow2
        nexts == log.heads
    IN [id |-> Identity(l), time |-> newTime, next |-> nexts,
        refs |-> references \ nexts]

\* the entry Log.append creates for log l
AppendEntry(log, l, pointerCount) ==
    LET newTime == Max2(log.time, MaxClockTime(log.heads)) + 1
        all == Traverse(log, HeadsSeq(log), Max2(pointerCount, Cardinality(log.heads)))
        pow2 == EveryPow2(all, 1, Min2(pointerCount, Len(all)))
        references == IF Len(all) < pointerCount /\ Len(all) > 0
                      THEN pow2 \cup {all[Len(all)]} ELSE pow2
        nexts == log.heads
    IN [id |-> Identity(l), time |-> newTime, next |-> nexts,
        refs |-> references \ nexts]

\* Log.append(data, {pointerCount}) up to the recycle check
Appended(log, l, pointerCount) ==
    LET entry == AppendEntry(log, l, pointerCount)
    IN [entries |-> log.entries \cup {entry},
        heads |-> {entry},
        nexts |-> NextsPutAll(log.nexts, entry.next, entry),
        length |-> log.length + 1,
        time |-> entry.time]

\* this._recycle && this.length > this._recycle.maxOplogLength
Recycles(added, l) == RecycleOf(l) > 0 /\ added.length > RecycleOf(l)

\* Log.append(data, {pointerCount})
AppendOp(log, l, pointerCount) ==
    LET added == Appended(log, l, pointerCount)
    IN IF Recycles(added, l) THEN CutLogOp(added, RecycleOf(l)) ELSE added

\* Log.difference(a, b): the entries of a that b lacks, in the order found
RECURSIVE DifferenceLoop(_, _, _, _, _)
DifferenceLoop(a, b, stack, traversed, res) ==
    IF Len(stack) = 0 THEN res
    ELSE LET hash == Head(stack)
             rest == Tail(stack)
         IN IF hash \in a.entries /\ hash \notin b.entries
            THEN LET res2 == IF hash \in SeqToSet(res) THEN res ELSE Append(res, hash)
                     trav2 == traversed \cup {hash}
                     push == {n \in (hash.next \cup hash.refs) :
                                 n \notin trav2 /\ n \notin b.entries}
                 IN DifferenceLoop(a, b, rest \o SetToSeq(push), trav2 \cup push, res2)
            ELSE DifferenceLoop(a, b, rest, traversed, res)

Difference(a, b) == DifferenceLoop(a, b, SetToSeq(a.heads), {}, <<>>)

\* addToNextsIndex over the new items, in their order
RECURSIVE AddToNextsIndex(_, _)
AddToNextsIndex(idx, items) ==
    IF Len(items) = 0 THEN idx
    ELSE AddToNextsIndex(NextsPutAll(idx, Head(items).next, Head(items)), Tail(items))

\* Log.join(log, size): `size' < 0 joins without a limit
JoinOp(this, other, size) ==
    LET newItems == Difference(other, this)
        newSet == SeqToSet(newItems)
        nexts2 == AddToNextsIndex(this.nexts, newItems)
        nextsFromNewItems == UNION {e.next : e \in newSet}
        mergedHeads == {e \in FindHeads(this.heads \cup other.heads) :
                            e \notin nextsFromNewItems /\ ~NextsHas(nexts2, e)}
        merged == [entries |-> this.entries \cup newSet,
                   heads |-> mergedHeads,
                   nexts |-> nexts2,
                   length |-> this.length + Cardinality({e \in newSet : e \notin this.entries}),
                   time |-> this.time]
        cut == IF size > -1 THEN CutLogOp(merged, size) ELSE merged
    IN [cut EXCEPT !.time = Max2(this.time, MaxClockTime(cut.heads))]

\* the entries of the batch that make permitted() or verify() throw
Failing(this, other, bad) == {e \in SeqToSet(Difference(other, this)) : e \in bad}

\* Mutant of Join: the entries before the first failing one are integrated
Join_UpToFailure(this, other, size, bad) ==
    IF Failing(this, other, bad) = {} THEN JoinOp(this, other, size)
    ELSE LET newItems == Difference(other, this)
             first == CHOOSE i \in 1..Len(newItems) :
                          /\ newItems[i] \in bad
                          /\ \A j \in 1..(i - 1) : newItems[j] \notin bad
             good == SeqToSet(SubSeq(newItems, 1, first - 1))
         IN [this EXCEPT !.entries = this.entries \cup good,
                         !.length = this.length + Cardinality(good \ this.entries)]

\* Log.join(log, size) with its checks: every entry of the difference is
\* checked (permitted, verify) before the log is touched
Join(this, other, size, bad) ==
    IF Failing(this, other, bad) # {} THEN this ELSE JoinOp(this, other, size)

(***************************************************************************)
(* Part 2: the replicator ring and leader selection                        *)
(* (packages/programs/data/shared-log/src/index.ts, class SharedLog)       *)
(*                                                                         *)
(* Offsets, factors and cursors are fixed-point numbers: Width stands for  *)
(* 1.0.  Times are milliseconds.                                           *)
(***************************************************************************)
Width == 4 * 3

\* the peers (public keys) that can be replicators of the log
Peers == 1..3

\* the peers whose SharedLog instance evaluates leaders
Nodes == 1..2

\* hashToUniformNumber(publicKey.bytes): the ring offset of a peer
OffsetOf(q) == ((q - 1) * 4 + 1) % Width

\* the Replicator.factor every peer is configured with: peer 1 covers the
\* whole ring, the others a third of it
FactorOf(q) == IF q = 1 THEN Width ELSE Width \div 3

\* the clock advances in steps of the role maturity time, up to twice that time
TickStep == WAIT_FOR_ROLE_MATURITY
MaxTime == 2 * WAIT_FOR_ROLE_MATURITY

\* the entry groups of the log, and the uniform number each gid hashes to:
\* hashToUniformNumber(sha256(gid))
Gids == 1..1
CursorOf(gid) == (gid - 1) * 4

NoRole == [factor |-> -1, timestamp |-> -1]
NoEval ==
    [ring |-> <<>>, cursor |-> -1, replicas |-> 0, time |-> -1, roleAge |-> -1,
     leaders |-> {}]

Abs(x) == IF x < 0 THEN -x ELSE x

\* const rect: ReplicatorRect = { publicKey, offset: code, role }
Rect(q, role) ==
    [publicKey |-> q, offset |-> OffsetOf(q), factor |-> role.factor,
     timestamp |-> role.timestamp]

InsertAt(s, i, x) == SubSeq(s, 1, i) \o <<x>> \o SubSeq(s, i + 1, Len(s))

RemoveAt(s, i) == SubSeq(s, 1, i - 1) \o SubSeq(s, i + 1, Len(s))

\* _modifyReplicators, Replicator branch: the walk from the head that updates
\* the rect of the key in place or finds the node to insert after
RECURSIVE InsertWalk(_, _, _)
InsertWalk(peers, rect, i) ==
    IF peers[i].publicKey = rect.publicKey THEN [peers EXCEPT ![i] = rect]
    ELSE IF rect.offset > peers[i].offset /\ i < Len(peers)
         THEN InsertWalk(peers, rect, i + 1)
    ELSE LET prev == IF rect.offset > peers[i].offset THEN i ELSE i - 1
         IN IF prev < Len(peers) /\ peers[prev + 1].publicKey = rect.publicKey
            THEN peers      \* throw new Error("Unexpected")
            ELSE InsertAt(peers, prev, rect)

\* _modifyReplicators, Observer branch: remove the first rect of the key
RECURSIVE RemoveWalk(_, _, _)
RemoveWalk(peers, q, i) ==
    IF i > Len(peers) THEN peers
    ELSE IF peers[i].publicKey = q THEN RemoveAt(peers, i)
    ELSE RemoveWalk(peers, q, i + 1)

\* _modifyReplicators(role, publicKey) on the ring `peers'
ModifyReplicatorsOp(peers, role, q) ==
    IF role.factor > 0
    THEN IF Len(peers) = 0 THEN <<Rect(q, role)>>
         ELSE InsertWalk(peers, Rect(q, role), 1)
    ELSE RemoveWalk(peers, q, 1)

\* the rect the ring `peers' holds for key q, or NoRole
RingRole(peers, q) ==
    IF \E i \in 1..Len(peers) : peers[i].publicKey = q
    THEN LET i == CHOOSE j \in 1..Len(peers) : peers[j].publicKey = q
         IN [factor |-> peers[i].factor, timestamp |-> peers[i].timestamp]
    ELSE NoRole

\* Mutant of Changed: no change of the ring is reported
Changed_None(peers, role, q) == "none"

\* what modifyReplicators(role, q) reports of the ring `peers'
Changed(peers, role, q) ==
    IF role.factor > 0
    THEN IF q \in {peers[i].publicKey : i \in 1..Len(peers)} THEN "updated" ELSE "added"
    ELSE IF q \in {peers[i].publicKey : i \in 1..Len(peers)} THEN "removed" ELSE "none"

\* options.canReplicate is not set
NoGate == [set |-> FALSE, admits |-> {}]

\* no call of canReplicate was made
NoDecision ==
    [at |-> 0, from |-> 0, role |-> NoRole, returned |-> TRUE, before |-> <<>>,
     after |-> <<>>, totalBefore |-> 0, totalAfter |-> 0]

\* the sum of the factors of the ranges on a ring
RECURSIVE RingTotal(_)
RingTotal(peers) ==
    IF Len(peers) = 0 THEN 0 ELSE peers[1].factor + RingTotal(Tail(peers))

\* Mutant of Rejected: the admission gate turns no role away
Rejected_Never(p, role, q) == FALSE

\* _modifyReplicators, its first test: the role is a Replicator, the option
\* canReplicate is set and the function returns false for the key
Rejected(p, role, q) ==
    role.factor > 0 /\ canReplicate[p].set /\ q \notin canReplicate[p].admits

\* Mutant of ModifyReplicators: when a range is updated, the factor of the
\* range it replaces stays in the total
ModifyReplicators_KeepsPrev(p, total, role, q) ==
    IF Rejected(p, role, q)
    THEN [peers |-> ring[p], changed |-> "none", total |-> total]
    ELSE LET peers == ModifyReplicatorsOp(ring[p], role, q)
             changed == Changed(ring[p], role, q)
             prev == RingRole(ring[p], q)
         IN [peers |-> peers, changed |-> changed,
             total |-> CASE changed = "added" ->
                               IF peers = ring[p] THEN total ELSE total + role.factor
                         [] changed = "updated" -> total + role.factor
                         [] changed = "removed" -> total - prev.factor
                         [] OTHER -> total]

\* _modifyReplicators(role, publicKey) of peer p whose _totalParticipation is
\* `total': the ring, what is reported and the total participation after it
ModifyReplicators(p, total, role, q) ==
    IF Rejected(p, role, q)
    THEN [peers |-> ring[p], changed |-> "none", total |-> total]
    ELSE LET peers == ModifyReplicatorsOp(ring[p], role, q)
             changed == Changed(ring[p], role, q)
             prev == RingRole(ring[p], q)
         IN [peers |-> peers, changed |-> changed,
             total |-> CASE changed = "added" ->
                               IF peers = ring[p] THEN total ELSE total + role.factor
                         [] changed = "updated" -> (total + role.factor) - prev.factor
                         [] changed = "removed" -> total - prev.factor
                         [] OTHER -> total]

\* the record of a call of _modifyReplicators that called canReplicate
GateRecord(p, total, role, q) ==
    IF role.factor > 0 /\ canReplicate[p].set
    THEN [at |-> p, from |-> q, role |-> role, returned |-> q \in canReplicate[p].admits,
          before |-> ring[p], after |-> ModifyReplicators(p, total, role, q).peers,
          totalBefore |-> total,
          totalAfter |-> ModifyReplicators(p, total, role, q).total]
    ELSE gateLast

\* no option is set, the total participation is that of the ring
InitGateVars ==
    /\ canReplicate = [p \in Peers |-> NoGate]
    /\ totalParticipation = [p \in Peers |-> RingTotal(ring[p])]
    /\ gateLast = NoDecision

\* a call of _modifyReplicators(role, publicKey) on peer p whose
\* _totalParticipation is `total'
ModifyRingFrom(p, total, role, q) ==
    LET update == ModifyReplicators(p, total, role, q)
    IN /\ ring' = [ring EXCEPT ![p] = update.peers]
       /\ totalParticipation' = [totalParticipation EXCEPT ![p] = update.total]
       /\ gateLast' = GateRecord(p, total, role, q)

ModifyRing(p, role, q) == ModifyRingFrom(p, totalParticipation[p], role, q)

\* the yallist nodes the ring of one node can hold at once, and null
NodeIds == 1..4
NoNode == 0

NoRect == [publicKey |-> 0, offset |-> -1, factor |-> -1, timestamp |-> -1]
FreeNode == [value |-> NoRect, prev |-> NoNode, next |-> NoNode, list |-> FALSE]

\* yallist.create()
EmptyList ==
    [head |-> NoNode, tail |-> NoNode, length |-> 0, nodes |-> [i \in NodeIds |-> FreeNode]]

\* the object a `new' allocates: the first node that is in no list
FreeId(list) ==
    CHOOSE i \in NodeIds :
        ~list.nodes[i].list /\ \A j \in 1..(i - 1) : list.nodes[j].list

\* new yallist.Node(value, prev, next, list): links the node to prev and next
NewNode(list, id, value, prev, next) ==
    [list EXCEPT !.nodes =
        [i \in NodeIds |->
            IF i = id THEN [value |-> value, prev |-> prev, next |-> next, list |-> TRUE]
            ELSE IF i = prev THEN [list.nodes[i] EXCEPT !.next = id]
            ELSE IF i = next THEN [list.nodes[i] EXCEPT !.prev = id]
            ELSE list.nodes[i]]]

\* sortedPeer.push(rect)
ListPush(list, value) ==
    LET id == FreeId(list)
        l1 == [NewNode(list, id, value, list.tail, NoNode) EXCEPT !.tail = id]
        l2 == IF l1.head = NoNode THEN [l1 EXCEPT !.head = id] ELSE l1
    IN [l2 EXCEPT !.length = @ + 1]

\* sortedPeer.removeNode(node)
ListRemoveNode(list, node) ==
    LET next == list.nodes[node].next
        prev == list.nodes[node].prev
    IN [head |-> IF node = list.head THEN next ELSE list.head,
        tail |-> IF node = list.tail THEN prev ELSE list.tail,
        length |-> list.length - 1,
        nodes |-> [i \in NodeIds |->
                    IF i = node THEN [list.nodes[i] EXCEPT !.prev = NoNode,
                                            !.next = NoNode, !.list = FALSE]
                    ELSE IF i = next /\ i = prev
                         THEN [list.nodes[i] EXCEPT !.prev = prev, !.next = next]
                    ELSE IF i = next THEN [list.nodes[i] EXCEPT !.prev = prev]
                    ELSE IF i = prev THEN [list.nodes[i] EXCEPT !.next = next]
                    ELSE list.nodes[i]]]

\* Mutant of InsertAfter: the tail of the list is never moved
InsertAfter_KeepsTail(list, node, value) ==
    LET id == FreeId(list)
        next == IF node = NoNode THEN list.head ELSE list.nodes[node].next
        l1 == NewNode(list, id, value, node, next)
        l2 == IF l1.nodes[id].prev = NoNode THEN [l1 EXCEPT !.head = id] ELSE l1
    IN [l2 EXCEPT !.length = @ + 1]

\* _insertAfter(self, node, value)
InsertAfter(list, node, value) ==
    LET id == FreeId(list)
        next == IF node = NoNode THEN list.head ELSE list.nodes[node].next
        l1 == NewNode(list, id, value, node, next)
        l2 == IF l1.nodes[id].next = NoNode THEN [l1 EXCEPT !.tail = id] ELSE l1
        l3 == IF l2.nodes[id].prev = NoNode THEN [l2 EXCEPT !.head = id] ELSE l2
    IN [l3 EXCEPT !.length = @ + 1]

\* _modifyReplicators, Replicator branch, on the linked nodes: the walk from
\* currentNode that updates the rect of the key or inserts a node for it
RECURSIVE ListInsertWalk(_, _, _)
ListInsertWalk(list, rect, currentNode) ==
    LET cur == list.nodes[currentNode]
    IN IF cur.value.publicKey = rect.publicKey
       THEN [list EXCEPT !.nodes[currentNode].value = rect]
       ELSE IF rect.offset > cur.value.offset /\ cur.next # NoNode
            THEN ListInsertWalk(list, rect, cur.next)
       ELSE LET prev == IF rect.offset > cur.value.offset THEN currentNode ELSE cur.prev
            IN IF /\ prev # NoNode
                  /\ list.nodes[prev].next # NoNode
                  /\ list.nodes[list.nodes[prev].next].value.publicKey = rect.publicKey
               THEN list      \* throw new Error("Unexpected")
               ELSE InsertAfter(list, prev, rect)

\* _modifyReplicators, Observer branch, on the linked nodes
RECURSIVE ListRemoveWalk(_, _, _)
ListRemoveWalk(list, q, currentNode) ==
    IF currentNode = NoNode THEN list
    ELSE IF list.nodes[currentNode].value.publicKey = q
         THEN ListRemoveNode(list, currentNode)
    ELSE ListRemoveWalk(list, q, list.nodes[currentNode].next)

\* _modifyReplicators(role, publicKey) on the linked nodes
ListModifyReplicators(list, role, q) ==
    IF role.factor > 0
    THEN IF list.head = NoNode THEN ListPush(list, Rect(q, role))
         ELSE ListInsertWalk(list, Rect(q, role), list.head)
    ELSE ListRemoveWalk(list, q, list.head)

\* the nodes reached from a node by following next, at most `fuel' of them
RECURSIVE FollowNext(_, _, _)
FollowNext(list, node, fuel) ==
    IF node = NoNode \/ fuel = 0 THEN <<>>
    ELSE <<node>> \o FollowNext(list, list.nodes[node].next, fuel - 1)

\* the rects of the list from its head: what a loop over the ring sees
ListRects(list) ==
    LET ids == FollowNext(list, list.head, Cardinality(NodeIds))
    IN [i \in 1..Len(ids) |-> list.nodes[ids[i]].value]

\* Mutant of IsMatured: a role as old as the role age counts as matured
IsMatured_NotYounger(rect, time, roleAge) == time - rect.timestamp >= roleAge

\* maybeIncrementMatured: time - Number(role.timestamp) > roleAge
IsMatured(rect, time, roleAge) == time - rect.timestamp > roleAge

\* the distance on the ring between the offset of a rect and the point
Diff(rect, point) ==
    LET absDelta == Abs((rect.offset % Width) - point)
    IN Min2(absDelta, Width - absDelta)

\* diff < factor / 2 + 0.00001
Covers(rect, point) == 2 * Diff(rect, point) <= rect.factor

\* diffs.sort((x, y) => x.diff - y.diff) with diff = diff / factor, or
\* Number.MAX_SAFE_INTEGER for factor 0: x sorts strictly before y
DiffBefore(x, y, point) ==
    IF x.factor = 0 THEN FALSE
    ELSE IF y.factor = 0 THEN TRUE
    ELSE Diff(x, point) * y.factor < Diff(y, point) * x.factor

\* the stable sort of the rects that do not cover the point
RECURSIVE SortDiffs(_, _)
SortDiffs(s, point) ==
    IF Len(s) = 0 THEN <<>>
    ELSE LET i == CHOOSE j \in 1..Len(s) :
                    /\ \A k \in 1..Len(s) : ~DiffBefore(s[k], s[j], point)
                    /\ \A k \in 1..(j - 1) : DiffBefore(s[j], s[k], point)
         IN <<s[i]>> \o SortDiffs(RemoveAt(s, i), point)

\* Mutant of AddUntilMatured: the loop stops at a rect older than the fixed
\* WAIT_FOR_ROLE_MATURITY and not than the role age of the call
RECURSIVE AddUntilMatured_FixedAge(_, _, _)
AddUntilMatured_FixedAge(diffs, time, roleAge) ==
    IF Len(diffs) = 0 THEN {}
    ELSE IF IsMatured(Head(diffs), time, WAIT_FOR_ROLE_MATURITY)
         THEN {Head(diffs).publicKey}
    ELSE {Head(diffs).publicKey}
            \cup AddUntilMatured_FixedAge(Tail(diffs), time, roleAge)

\* for (const node of diffs) { collector.add; maybeIncrementMatured; break }
RECURSIVE AddUntilMatured(_, _, _)
AddUntilMatured(diffs, time, roleAge) ==
    IF Len(diffs) = 0 THEN {}
    ELSE IF IsMatured(Head(diffs), time, roleAge) THEN {Head(diffs).publicKey}
    ELSE {Head(diffs).publicKey} \cup AddUntilMatured(Tail(diffs), time, roleAge)

\* Mutant of CollectNodesAroundPoint: no fallback to the closest rects when
\* no matured rect covers the point
CollectNodesAroundPoint_NoFallback(time, roleAge, peers, point) ==
    {peers[i].publicKey : i \in {j \in 1..Len(peers) : Covers(peers[j], point)}}

\* collectNodesAroundPoint: the keys it adds to the collector
CollectNodesAroundPoint(time, roleAge, peers, point) ==
    LET covering == {i \in 1..Len(peers) : Covers(peers[i], point)}
        matured == Cardinality({i \in covering : IsMatured(peers[i], time, roleAge)})
        others == SelectSeq(peers, LAMBDA rect : ~Covers(rect, point))
    IN {peers[i].publicKey : i \in covering}
         \cup IF matured = 0
              THEN AddUntilMatured(SortDiffs(others, point), time, roleAge)
              ELSE {}

\* Mutant of FindLeadersFromUniformNumber: only matured replicators are
\* returned
FindLeadersFromUniformNumber_Matured(peers, cursor, numberOfLeaders, time, roleAge) ==
    {peers[i].publicKey : i \in {j \in 1..Len(peers) : IsMatured(peers[j], time, roleAge)}}

\* findLeadersFromUniformNumber(cursor, numberOfLeaders)
FindLeadersFromUniformNumber(peers, cursor, numberOfLeaders, time, roleAge) ==
    IF Len(peers) = 0 THEN {}
    ELSE LET n == Min2(numberOfLeaders, Len(peers))
         IN UNION {CollectNodesAroundPoint(time, roleAge, peers,
                        (cursor + (i * Width) \div n) % Width) : i \in 0..(n - 1)}

\* const roleAge = Math.min(WAIT_FOR_ROLE_MATURITY, +new Date() - this.openTime)
RoleAge(p, time) == Min2(WAIT_FOR_ROLE_MATURITY, time - openTime[p])

\* findLeaders(gid, numberOfLeaders) on an open node p at `time'; the cursor
\* is the uniform number the gid hashes to
FindLeaders(p, cursor, numberOfLeaders, time) ==
    FindLeadersFromUniformNumber(ring[p], cursor, numberOfLeaders, time,
                                 RoleAge(p, time))

InitLeadersVars ==
    /\ now = 0
    /\ openTime = [p \in Peers |-> IF p = 1 THEN 0 ELSE -1]
    /\ roles = [q \in Peers |-> NoRole]
    /\ ring = [p \in Peers |-> <<>>]
    /\ lastEval = NoEval
    /\ linked = EmptyList

\* a role of peer q reaches the node: _modifyReplicators(role, q)
ListModify(q, factor, timestamp) ==
    /\ \E i \in NodeIds : ~linked.nodes[i].list
    /\ linked' = ListModifyReplicators(linked, [factor |-> factor, timestamp |-> timestamp], q)
    /\ UNCHANGED outsideList

\* time passes
Tick ==
    /\ now < MaxTime
    /\ now' = now + TickStep
    /\ UNCHANGED <<openTime, roles, ring, lastEval, varsRole, outsideRing>>

\* the handlers of a log that was not opened
NoFns == [onSubscriptionFn |-> 0, onUnsubscriptionFn |-> 0, bound |-> 0, registered |-> {}]

\* open: this._onSubscriptionFn = this._onSubscription.bind(this) and
\* this._onUnsubscriptionFn = this._onUnsubscription.bind(this), each
\* registered with pubsub.addEventListener.  Every bind makes a new function.
OpenFns(f) ==
    [onSubscriptionFn |-> f.bound + 1,
     onUnsubscriptionFn |-> f.bound + 2,
     bound |-> f.bound + 2,
     registered |-> f.registered \cup {<<"subscribe", f.bound + 1>>,
                                       <<"unsubscribe", f.bound + 2>>}]

\* _close: removeEventListener("subscribe", this._onSubscriptionFn), then
\* this._onUnsubscriptionFn = this._onUnsubscription.bind(this) and
\* removeEventListener("unsubscribe", this._onUnsubscriptionFn)
CloseFns(f) ==
    LET fn == f.bound + 1
    IN [onSubscriptionFn |-> f.onSubscriptionFn,
        onUnsubscriptionFn |-> fn,
        bound |-> fn,
        registered |-> (f.registered \ {<<"subscribe", f.onSubscriptionFn>>})
                            \ {<<"unsubscribe", fn>>}]

\* SharedLog.open
Open(p) ==
    /\ openTime[p] = -1
    /\ openTime' = [openTime EXCEPT ![p] = now]
    /\ fns' = [fns EXCEPT ![p] = OpenFns(@)]
    /\ UNCHANGED <<now, roles, ring, lastEval, varsRole, outsideOpen>>

\* peer q takes the role of a replicator: new Replicator({ factor })
SetRole(q) ==
    /\ roles[q] = NoRole
    /\ roles' = [roles EXCEPT ![q] = [factor |-> FactorOf(q), timestamp |-> now]]
    /\ UNCHANGED <<now, openTime, ring, lastEval, varsRole, outsideRing>>

\* node p learns of the role of q: modifyReplicators(role, q)
Modify(p, q) ==
    /\ openTime[p] # -1
    /\ roles[q] # NoRole
    /\ ModifyRing(p, roles[q], q)
    /\ UNCHANGED <<now, openTime, roles, lastEval, varsRole, outsideModify>>

\* node p calls findLeaders(gid, replicas)
Evaluate(p, cursor, replicas) ==
    /\ openTime[p] # -1
    /\ lastEval' = [ring |-> ring[p], cursor |-> cursor, replicas |-> replicas,
                    time |-> now, roleAge |-> RoleAge(p, now),
                    leaders |-> FindLeaders(p, cursor, replicas, now)]
    /\ UNCHANGED <<now, openTime, roles, ring, varsRole, outsideRing>>

(***************************************************************************)
(* Part 3: role messages                                                   *)
(* (index.ts: _updateRole, _onMessage for ResponseRoleMessage,             *)
(*  modifyReplicators)                                                     *)
(*                                                                         *)
(* An Observer is a role of factor 0: it has no range on the ring.         *)
(***************************************************************************)
NoTimestamp == -1

\* the roles a peer can take: Observer, or Replicator with its factor
RoleFactors(q) == {0, FactorOf(q)}

InitRoleVars ==
    /\ latestRoleMessages = [p \in Peers |-> [q \in Peers |-> NoTimestamp]]
    /\ seenRole = [p \in Peers |-> [q \in Peers |-> NoRole]]
    /\ roleMsgs = {}
    /\ roleHandlers = [p \in Peers |-> {}]
    /\ unsubscribed = [p \in Peers |-> {}]

\* the peer has unsubscribed from the topic of the log: a node has handled
\* its unsubscription event
Left(q) == \E p \in Peers : q \in unsubscribed[p]

\* updateRole(role) on node q: the role is set, the own ring is modified and a
\* ResponseRoleMessage is sent to the other peers.  A peer changes its role
\* at most once per clock value, so that its messages have distinct timestamps.
\* A peer that has unsubscribed sends no role message.
UpdateRole(q, factor) ==
    /\ openTime[q] # -1
    /\ ~Left(q)
    /\ roles[q].timestamp < now
    /\ roles[q].factor # factor
    /\ LET role == [factor |-> factor, timestamp |-> now]
       IN /\ roles' = [roles EXCEPT ![q] = role]
          /\ ModifyRing(q, role, q)
          /\ roleMsgs' = roleMsgs \cup
                {[from |-> q, to |-> p, role |-> role, timestamp |-> now] :
                    p \in {n \in Nodes : n # q /\ openTime[n] # -1}}
    /\ UNCHANGED <<now, openTime, lastEval, latestRoleMessages, seenRole,
                   roleHandlers, unsubscribed, outsideModify>>

\* _onMessage(ResponseRoleMessage): the handler starts this.waitFor(from)
RoleReceive(m) ==
    /\ m \in roleMsgs
    /\ roleMsgs' = roleMsgs \ {m}
    /\ roleHandlers' = [roleHandlers EXCEPT ![m.to] = @ \cup {[msg |-> m, pc |-> "waitFor"]}]
    /\ UNCHANGED <<varsLeaders, latestRoleMessages, seenRole, unsubscribed, outsideRing>>

\* waitFor(from).then(...): the timestamp check, latestRoleMessages.set and
\* modifyReplicators up to its first await, which only a Replicator with a
\* factor above 0 reaches (await this.waitFor(publicKey)); for any other role
\* the rect of the key is removed without a suspension
RoleThen(p, h) ==
    /\ h \in roleHandlers[p]
    /\ h.pc = "waitFor"
    /\ LET from == h.msg.from
           prev == latestRoleMessages[p][from]
       IN IF prev # NoTimestamp /\ prev # 0 /\ prev > h.msg.timestamp
          THEN /\ roleHandlers' = [roleHandlers EXCEPT ![p] = @ \ {h}]
               /\ UNCHANGED <<latestRoleMessages, seenRole, ring, totalParticipation,
                              gateLast>>
          ELSE /\ latestRoleMessages' = [latestRoleMessages EXCEPT ![p][from] = h.msg.timestamp]
               /\ seenRole' = [seenRole EXCEPT ![p][from] = h.msg.role]
               /\ IF h.msg.role.factor > 0
                  THEN /\ roleHandlers' = [roleHandlers EXCEPT ![p] =
                                             (@ \ {h}) \cup {[h EXCEPT !.pc = "isOnline"]}]
                       /\ UNCHANGED <<ring, totalParticipation, gateLast>>
                  ELSE /\ roleHandlers' = [roleHandlers EXCEPT ![p] = @ \ {h}]
                       /\ ModifyRing(p, h.msg.role, from)
    /\ UNCHANGED <<now, openTime, roles, lastEval, roleMsgs, unsubscribed, outsideModify>>

\* await this.waitFor(publicKey) in _modifyReplicators: the promise is
\* fulfilled while the peer is subscribed; the handler resumes in a later step
RoleOnline(p, h) ==
    /\ h \in roleHandlers[p]
    /\ h.pc = "isOnline"
    /\ h.msg.from \notin unsubscribed[p]
    /\ roleHandlers' = [roleHandlers EXCEPT ![p] = (@ \ {h}) \cup {[h EXCEPT !.pc = "online"]}]
    /\ UNCHANGED <<varsLeaders, latestRoleMessages, seenRole, roleMsgs, unsubscribed,
                   outsideRing>>

\* a waitFor on a peer that has unsubscribed is rejected: the catch of the
\* message handler logs the error, _modifyReplicators returns changed "none"
RoleOffline(p, h) ==
    /\ h \in roleHandlers[p]
    /\ h.pc \in {"waitFor", "isOnline"}
    /\ h.msg.from \in unsubscribed[p]
    /\ roleHandlers' = [roleHandlers EXCEPT ![p] = @ \ {h}]
    /\ UNCHANGED <<varsLeaders, latestRoleMessages, seenRole, roleMsgs, unsubscribed,
                   outsideRing>>

\* _modifyReplicators after await this.waitFor(publicKey): the rect of the
\* role is inserted, or replaces the rect of the key
RoleInsert(p, h) ==
    /\ h \in roleHandlers[p]
    /\ h.pc = "online"
    /\ ModifyRing(p, h.msg.role, h.msg.from)
    /\ roleHandlers' = [roleHandlers EXCEPT ![p] = @ \ {h}]
    /\ UNCHANGED <<now, openTime, roles, lastEval, latestRoleMessages, seenRole,
                   roleMsgs, unsubscribed, outsideModify>>

\* _onUnsubscription(evt) of peer q on node p: latestRoleMessages.delete and
\* handleSubscriptionChange, whose modifyReplicators(new Observer(), q)
\* removes the rect of q without a suspension
RoleUnsubscribe(p, q) ==
    /\ openTime[p] # -1 /\ openTime[q] # -1
    /\ q # p
    /\ q \notin unsubscribed[p]
    /\ unsubscribed' = [unsubscribed EXCEPT ![p] = @ \cup {q}]
    /\ latestRoleMessages' = [latestRoleMessages EXCEPT ![p][q] = NoTimestamp]
    /\ ModifyRing(p, [factor |-> 0, timestamp |-> now], q)
    /\ UNCHANGED <<now, openTime, roles, lastEval, seenRole, roleMsgs, roleHandlers,
                   outsideModify>>

(***************************************************************************)
(* Part 4: the direct stream: deduplication of data messages               *)
(* (messages.ts: DataMessage, MessageHeader, getMsgId; the stream itself   *)
(*  is modelled from the specification, section 4.4)                       *)
(***************************************************************************)
\* const DATA_VARIANT = 0
DATA_VARIANT == 0

\* the ids a MessageHeader can draw: randomBytes(ID_LENGTH)
MsgIds == 1..MaxMsgs

\* the peers that publish data
Publishers == 1..2

\* the peers a peer has a connection to: every other peer
Neighbours(p) == Peers \ {p}

\* the serialized DataMessage: the variant byte, the header (the id first,
\* then the fields a relay may mutate, of which `to') and the data
DataMessage(id, to) == [variant |-> DATA_VARIANT, id |-> id, to |-> to]

\* Mutant of GetMsgId: the id is the hash of the whole message
GetMsgId_WholeMessage(msg) == msg

\* getMsgId: sha256Base64(msg.subarray(0, 33)), the hash of the variant byte
\* and the 32 bytes of the id
GetMsgId(msg) == [variant |-> msg.variant, id |-> msg.id]

\* the ids a seen-set of capacity MaxSeen forgets to take one more id
Evictions(cache) ==
    {out \in SUBSET cache :
        Cardinality(out) = IF Cardinality(cache) < MaxSeen THEN 0 ELSE 1}

\* the eviction counters after the ids in `out' were forgotten
CountEvicted(counts, out) ==
    [i \in MsgIds |-> IF \E x \in out : x.id = i THEN counts[i] + 1 ELSE counts[i]]

InitStreamVars ==
    /\ seenCache = [p \in Peers |-> {}]
    /\ wire = {}
    /\ published = {}
    /\ dropped = [p \in Peers |-> {}]
    /\ processed = [p \in Peers |-> [i \in MsgIds |-> 0]]
    /\ evicted = [p \in Peers |-> [i \in MsgIds |-> 0]]

\* the copies peer p sends of msg to its neighbours, the incoming link
\* excepted; a relay takes itself out of `to'
Forward(p, msg, incoming) ==
    {[dst |-> n, from |-> p, msg |-> msg] : n \in Neighbours(p) \ {incoming}}

\* publish(data): a new DataMessage is framed and sent to the neighbours; the
\* publisher adds its id to its seen-set
Publish(p, i, out) ==
    /\ i \notin published
    /\ out \in Evictions(seenCache[p])
    /\ published' = published \cup {i}
    /\ LET msg == DataMessage(i, Peers \ {p})
       IN /\ seenCache' = [seenCache EXCEPT ![p] = (@ \ out) \cup {GetMsgId(msg)}]
          /\ wire' = wire \cup Forward(p, msg, p)
    /\ evicted' = [evicted EXCEPT ![p] = CountEvicted(@, out)]
    /\ UNCHANGED <<dropped, processed, outsideStream>>

\* a copy arrives at its destination and its id is already in the seen-set:
\* the copy is not processed
ReceiveSeen(c) ==
    /\ c \in wire
    /\ GetMsgId(c.msg) \in seenCache[c.dst]
    /\ wire' = wire \ {c}
    /\ dropped' = [dropped EXCEPT ![c.dst] = @ \cup {c.msg.id}]
    /\ UNCHANGED <<seenCache, published, processed, evicted, outsideStream>>

\* a copy arrives and its id is not in the seen-set: the id is added to the
\* seen-set, which forgets the ids in `out' to stay within its bound, and the
\* message is processed and relayed to the targets left in `to'
ReceiveNew(c, out) ==
    /\ c \in wire
    /\ GetMsgId(c.msg) \notin seenCache[c.dst]
    /\ out \in Evictions(seenCache[c.dst])
    /\ seenCache' = [seenCache EXCEPT ![c.dst] = (@ \ out) \cup {GetMsgId(c.msg)}]
    /\ evicted' = [evicted EXCEPT ![c.dst] = CountEvicted(@, out)]
    /\ processed' = [processed EXCEPT ![c.dst][c.msg.id] = @ + 1]
    /\ LET to == c.msg.to \ {c.dst}
       IN wire' = (wire \ {c}) \cup
                    IF to = {} THEN {}
                    ELSE Forward(c.dst, DataMessage(c.msg.id, to), c.from)
    /\ UNCHANGED <<published, dropped, outsideStream>>

(***************************************************************************)
(* Part 5: checked pruning                                                 *)
(* (index.ts: prune, _onMessage for RequestIPrune and ResponseIPrune,      *)
(*  onRoleChange)                                                          *)
(*                                                                         *)
(* Every entry is known by its hash.  log.remove is taken to remove the    *)
(* entry it is called with.                                                *)
(***************************************************************************)
Hashes == 1..2

\* the checked prunes a peer starts for one hash
Rounds == 1..1

\* the peers that prune: peer 3 has the narrowest range, farthest from the gid
Pruners == {3}

\* entry.meta.gid
GidOf(h) == 1

\* index.ts: export const DEFAULT_MIN_REPLICAS = 2
DEFAULT_MIN_REPLICAS == 2

\* decodeReplicas(entry).getValue(this): the minimum replicas of the entry.
\* An entry appended through SharedLog.append without options.replicas
\* carries this.replicas.min; the other entries carry 1 and 3.
EntryReplicas(h) ==
    IF creator[h] # 0 THEN DEFAULT_MIN_REPLICAS
    ELSE IF h = 1 THEN 1 ELSE 3

\* maxReplicas(this, entries): the largest minimum replicas of the entries
MaxReplicasOf(S) ==
    LET values == {EntryReplicas(h) : h \in S}
    IN CHOOSE v \in values : \A w \in values : w <= v

\* this.replicas.max.getValue(this)
ReplicasMax == MaxReplicas

\* minMinReplicasValue
MinMinReplicasValue(h) == Min2(EntryReplicas(h), ReplicasMax)

\* isLeader(gid, numberOfLeaders) on node p
IsLeader(p, gid, numberOfLeaders) ==
    p \in FindLeaders(p, CursorOf(gid), numberOfLeaders, now)

\* Mutant of ExistCounterAdd: every responder is counted
ExistCounterAdd_AnyPeer(counter, leaders, publicKeyHash) ==
    counter \cup {publicKeyHash}

\* if (leaders.find((x) => x === publicKeyHash)) existCounter.add(publicKeyHash)
ExistCounterAdd(counter, leaders, publicKeyHash) ==
    IF publicKeyHash \in leaders THEN counter \cup {publicKeyHash} ELSE counter

\* the prune calls of which a promise is not settled: their onNewPeer
\* listener is still registered
ActiveCalls(calls, pending) ==
    {c \in calls : \E a \in c.awaits : pending[a[1]] = a[2]}

\* clear() of the prune call `round' of hash h
ClearPending(pending, h, round) ==
    IF pending[h] = round THEN [pending EXCEPT ![h] = 0] ELSE pending

\* every peer that has the log open has registered its handlers at open
InitCloseVars ==
    /\ closed = [p \in Peers |-> FALSE]
    /\ requestHandlers = {}
    /\ fns = [p \in Peers |-> IF openTime[p] # -1 THEN OpenFns(NoFns) ELSE NoFns]

InitPruneVars ==
    /\ have = [p \in Peers |-> Hashes]
    /\ pendingDeletes = [p \in Peers |-> [h \in Hashes |-> 0]]
    /\ pruneRounds = [p \in Peers |-> [h \in Hashes |-> 0]]
    /\ pruneOutcome = [p \in Peers |-> [h \in Hashes |-> "none"]]
    /\ existCounter = [p \in Peers |-> [h \in Hashes |-> [r \in Rounds |-> {}]]]
    /\ pruneCalls = [p \in Peers |-> {}]
    /\ pendingIHave = [p \in Peers |-> {}]
    /\ pruneMsgs = {}
    /\ pruneHandlers = {}
    /\ confirmed = [p \in Peers |-> [h \in Hashes |-> {}]]

\* prune(entries) without options.unchecked: what the call does to the
\* pending deletes, to the listeners and to the network
PruneCall(p, entries) ==
    LET filteredEntries == {h \in entries : pendingDeletes[p][h] = 0}
        pending == [h \in Hashes |->
                       IF h \in filteredEntries THEN pruneRounds[p][h] + 1
                       ELSE pendingDeletes[p][h]]
    IN /\ \A h \in filteredEntries : pruneRounds[p][h] + 1 \in Rounds
       /\ pendingDeletes' = [pendingDeletes EXCEPT ![p] = pending]
       /\ pruneOutcome' = [pruneOutcome EXCEPT ![p] =
                            [h \in Hashes |-> IF h \in filteredEntries
                                              THEN "none" ELSE @[h]]]
       /\ pruneRounds' = [pruneRounds EXCEPT ![p] =
                            [h \in Hashes |-> IF h \in filteredEntries
                                              THEN @[h] + 1 ELSE @[h]]]
       /\ IF filteredEntries = {}
          THEN UNCHANGED <<pruneMsgs, pruneCalls>>
          ELSE /\ pruneMsgs' = pruneMsgs \cup
                     {[type |-> "RequestIPrune", from |-> p, to |-> q,
                       hashes |-> filteredEntries] :
                         q \in {n \in Peers : n # p /\ openTime[n] # -1}}
               /\ pruneCalls' = [pruneCalls EXCEPT ![p] =
                     ActiveCalls(@, pending) \cup
                         {[hashes |-> filteredEntries,
                           awaits |-> {<<h, pending[h]>> : h \in entries}]}]

\* a caller prunes entries of its log
Prune(p, entries) ==
    /\ openTime[p] # -1
    /\ entries # {}
    /\ entries \subseteq have[p]
    /\ PruneCall(p, entries)
    /\ UNCHANGED <<have, existCounter, pendingIHave, pruneHandlers, confirmed,
                   varsLeaders, outsidePrune>>

\* no call of prune yet
NoPrune == [called |-> FALSE, peer |-> 0, entries |-> {}, pending |-> [h \in Hashes |-> 0],
            promises |-> {}, requested |-> {}]

\* the array prune(entries) returns: the promise of a pending delete is the
\* pair of its hash and its round.  promises.push(pendingPrev.promise.promise)
\* or promises.push(deferredPromise.promise) for every entry, but
\* if (filteredEntries.length == 0) return []
PrunePromises(p, entries) ==
    IF {h \in entries : pendingDeletes[p][h] = 0} = {} THEN {}
    ELSE {<<h, IF pendingDeletes[p][h] # 0 THEN pendingDeletes[p][h]
               ELSE pruneRounds[p][h] + 1>> : h \in entries}

\* a caller prunes entries of its log and keeps the promises it is given
PruneAndAwait(p, entries) ==
    /\ openTime[p] # -1
    /\ entries # {}
    /\ entries \subseteq have[p]
    /\ PruneCall(p, entries)
    /\ lastPrune' = [called |-> TRUE, peer |-> p, entries |-> entries,
                     pending |-> pendingDeletes'[p],
                     promises |-> PrunePromises(p, entries),
                     requested |-> UNION {m.hashes : m \in pruneMsgs' \ pruneMsgs}]
    /\ UNCHANGED <<have, existCounter, pendingIHave, pruneHandlers, confirmed,
                   varsLeaders, varsLog, varsList, varsIndex, varsMessage, varsRoutes,
                   varsGate, varsPass, varsRole, varsStream, varsShared, varsClose, fns,
                   lastCover, lastTraverse, lastCompare, lastSort, deleteHandlers,
                   updaters, removed, queue, passHistory>>

\* Mutant of PruneTimeout: the timeout sends the request again and the prune
\* stays pending
PruneTimeout_Retry(p, h) ==
    /\ pendingDeletes[p][h] # 0
    /\ pruneMsgs' = pruneMsgs \cup
            {[type |-> "RequestIPrune", from |-> p, to |-> q, hashes |-> {h}] :
                q \in {n \in Peers : n # p /\ openTime[n] # -1}}
    /\ pruneMsgs' # pruneMsgs
    /\ UNCHANGED <<have, pendingDeletes, pruneRounds, pruneOutcome, existCounter,
                   pruneCalls, pendingIHave, pruneHandlers, confirmed,
                   varsLeaders, outsidePrune>>

\* the timeout of a checked prune: reject(new Error("Timeout for checked pruning"))
PruneTimeout(p, h) ==
    /\ pendingDeletes[p][h] # 0
    /\ pendingDeletes' = [pendingDeletes EXCEPT ![p][h] = 0]
    /\ pruneCalls' = [pruneCalls EXCEPT ![p] = ActiveCalls(@, pendingDeletes'[p])]
    /\ pruneOutcome' = [pruneOutcome EXCEPT ![p][h] = "timeout"]
    /\ UNCHANGED <<have, pruneRounds, existCounter, pendingIHave, pruneMsgs,
                   pruneHandlers, confirmed, varsLeaders, outsidePrune>>

\* the number of pending IHave that are chained for hash h (prevPendingIHave)
ChainLength(pending, h) == Cardinality({x \in pending : x[1] = h})

\* this._pendingIHave.set(hash, pendingIHave) with prevPendingIHave: the
\* chain of hash h after a request of peer `from'.  An older pending IHave of
\* the same peer is left out: its timer has no effect and its callback would
\* send the same message as the new one.
Chained(pending, h, from) ==
    LET rest == {x \in pending : x[1] = h /\ x[2] # from}
    IN {<<x[1], x[2], Cardinality({y \in rest : y[3] < x[3]}) + 1, x[4]>> : x \in rest}
       \cup {<<h, from, Cardinality(rest) + 1, FALSE>>}

\* Mutant of HasAndIsLeader: every requested hash the peer holds is confirmed
HasAndIsLeader_HasOnly(q, hashes) == {h \in hashes : h \in have[q]}

\* the hashes of a RequestIPrune that peer q confirms at once
HasAndIsLeader(q, hashes) ==
    {h \in hashes : /\ h \in have[q]
                    /\ IsLeader(q, GidOf(h), EntryReplicas(h))}

\* the pending IHave whose callback sends a ResponseIPrune when the entries
\* `added' come into the log of p: the newest of the hash and, through
\* prevPendingIHave.callback, every older one, if p is a leader
Answered(p, pending, added) ==
    {x \in pending : /\ x[1] \in added
                     /\ IsLeader(p, GidOf(x[1]), EntryReplicas(x[1]))}

\* the timer of a pending IHave: the map entry of the hash is deleted if it
\* is this one; an older one of the chain stays where it is
IHaveTimeout(q, x) ==
    /\ x \in pendingIHave[q]
    /\ ~x[4]
    /\ \A y \in pendingIHave[q] : (y[1] = x[1] /\ y[3] < x[3]) => y[4]
    /\ pendingIHave' = [pendingIHave EXCEPT ![q] =
            IF x[3] = ChainLength(@, x[1])
            THEN {y \in @ : y[1] # x[1]}
            ELSE (@ \ {x}) \cup {<<x[1], x[2], x[3], TRUE>>}]
    /\ UNCHANGED <<have, pendingDeletes, pruneRounds, pruneOutcome, existCounter,
                   pruneCalls, pruneMsgs, pruneHandlers, confirmed, varsLeaders,
                   outsidePrune>>

\* the loop of the RequestIPrune handler over msg.hashes and its answer
RequestIPruneAnswer(m) ==
    LET q == m.to
        hasAndIsLeader == HasAndIsLeader(q, m.hashes)
    IN /\ pendingIHave' = [pendingIHave EXCEPT ![q] =
                {x \in @ : x[1] \notin m.hashes \ hasAndIsLeader}
                \cup UNION {Chained(@, h, m.from) : h \in m.hashes \ hasAndIsLeader}]
       /\ pruneMsgs' = (pruneMsgs \ {m}) \cup
                {[type |-> "ResponseIPrune", from |-> q, to |-> m.from,
                  hashes |-> hasAndIsLeader]}

\* _onMessage(RequestIPrune), when nothing else runs before it returns
RequestIPruneReceive(m) ==
    /\ m \in pruneMsgs
    /\ m.type = "RequestIPrune"
    /\ RequestIPruneAnswer(m)
    /\ UNCHANGED <<have, pendingDeletes, pruneRounds, pruneOutcome, existCounter, pruneCalls,
                   pruneHandlers, confirmed, varsLeaders, outsidePrune>>

\* _onMessage(RequestIPrune) for one hash that is in the log: the handler is
\* suspended at await this.isLeader, before it has changed anything
RequestIPruneSuspend(m) ==
    /\ m \in pruneMsgs
    /\ m.type = "RequestIPrune"
    /\ Cardinality(m.hashes) = 1
    /\ m.hashes \subseteq have[m.to]
    /\ pruneMsgs' = pruneMsgs \ {m}
    /\ requestHandlers' = requestHandlers \cup {m}
    /\ UNCHANGED <<varsLog, varsLeaders, varsList, varsIndex, varsMessage, varsRoutes, varsCalls, varsGate, varsPass, varsRole, varsStream, varsShared,
                   have, pendingDeletes, pruneRounds, pruneOutcome, existCounter,
                   pruneCalls, pendingIHave, pruneHandlers, confirmed, closed, fns>>

\* the handler resumes: findLeaders goes on after await sha256 with the ring
\* as it is now (no leaders when getReplicatorsSorted() is undefined)
RequestIPruneResume(m) ==
    /\ m \in requestHandlers
    /\ m.hashes \subseteq have[m.to]
    /\ requestHandlers' = requestHandlers \ {m}
    /\ RequestIPruneAnswer(m)
    /\ UNCHANGED <<varsLog, varsLeaders, varsList, varsIndex, varsMessage, varsRoutes, varsCalls, varsGate, varsPass, varsRole, varsStream, varsShared,
                   have, pendingDeletes, pruneRounds, pruneOutcome, existCounter,
                   pruneCalls, pruneHandlers, confirmed, closed, fns>>

\* close: Program.close sets closed, then _close aborts the close controller
\* (the timers of onRoleChange and every waitFor of a role handler), removes
\* the listeners, clears and resolves every pending delete, clears the
\* timers of every pending IHave, empties both maps, latestRoleMessages and
\* _gidPeersHistory and drops the ring.  Nothing else runs before it returns.
SharedClose(p) ==
    /\ openTime[p] # -1
    /\ ~closed[p]
    /\ closed' = [closed EXCEPT ![p] = TRUE]
    /\ fns' = [fns EXCEPT ![p] = CloseFns(@)]
    /\ pruneOutcome' = [pruneOutcome EXCEPT ![p] =
            [h \in Hashes |-> IF pendingDeletes[p][h] # 0 THEN "closed" ELSE @[h]]]
    /\ pendingDeletes' = [pendingDeletes EXCEPT ![p] = [h \in Hashes |-> 0]]
    /\ pruneCalls' = [pruneCalls EXCEPT ![p] = {}]
    /\ pendingIHave' = [pendingIHave EXCEPT ![p] = {}]
    /\ latestRoleMessages' = [latestRoleMessages EXCEPT ![p] = [q \in Peers |-> NoTimestamp]]
    /\ roleHandlers' = [roleHandlers EXCEPT ![p] = {}]
    /\ gidPeersHistory' = [gidPeersHistory EXCEPT ![p] = {}]
    /\ distributeTimer' = [distributeTimer EXCEPT ![p] = FALSE]
    /\ ring' = [ring EXCEPT ![p] = <<>>]
    /\ UNCHANGED <<varsLog, varsList, varsIndex, varsMessage, varsRoutes, varsCalls, varsGate, varsPass, varsStream, now, openTime, roles, lastEval,
                   seenRole, roleMsgs, unsubscribed, have, pruneRounds, existCounter,
                   pruneMsgs, pruneHandlers, confirmed, creator, entryNext, unsent,
                   headMsgs, distributeQueued, requestHandlers>>

\* _onMessage(ResponseIPrune): this._pendingDeletes.get(hash)?.resolve(from)
\* runs for every hash up to await this.findLeaders
ResponseIPruneReceive(m) ==
    /\ m \in pruneMsgs
    /\ m.type = "ResponseIPrune"
    /\ pruneMsgs' = pruneMsgs \ {m}
    /\ pruneHandlers' = pruneHandlers \cup
            {[at |-> m.to, hash |-> h, from |-> m.from,
              round |-> pendingDeletes[m.to][h]] :
                h \in {x \in m.hashes : pendingDeletes[m.to][x] # 0}}
    /\ UNCHANGED <<have, pendingDeletes, pruneRounds, pruneOutcome, existCounter, pruneCalls,
                   pendingIHave, confirmed, varsLeaders, outsidePrune>>

\* resolve(publicKeyHash) of a pending delete, after await this.findLeaders
PruneResolve(x) ==
    /\ x \in pruneHandlers
    /\ pruneHandlers' = pruneHandlers \ {x}
    /\ LET p == x.at
           h == x.hash
           leaders == FindLeaders(p, CursorOf(GidOf(h)), MinMinReplicasValue(h), now)
           counter == ExistCounterAdd(existCounter[p][h][x.round], leaders, x.from)
       IN /\ confirmed' = [confirmed EXCEPT ![p][h] =
                                @ \cup ({x.from} \cap leaders)]
          /\ IF p \in leaders
             THEN \* reject(new Error("Failed to delete, is leader"))
                  /\ pendingDeletes' = [pendingDeletes EXCEPT ![p] =
                                            ClearPending(@, h, x.round)]
                  /\ pruneOutcome' = [pruneOutcome EXCEPT ![p][h] =
                        IF pendingDeletes[p][h] = x.round THEN "is leader" ELSE @]
                  /\ UNCHANGED <<have, existCounter>>
             ELSE /\ existCounter' = [existCounter EXCEPT ![p][h][x.round] = counter]
                  /\ IF x.from \in leaders /\ MinMinReplicasValue(h) <= Cardinality(counter)
                     THEN \* this.log.remove(entry).then(() => resolve())
                          /\ have' = [have EXCEPT ![p] = @ \ {h}]
                          /\ pendingDeletes' = [pendingDeletes EXCEPT ![p] =
                                                    ClearPending(@, h, x.round)]
                          /\ pruneOutcome' = [pruneOutcome EXCEPT ![p][h] =
                                IF pendingDeletes[p][h] = x.round THEN "resolved" ELSE @]
                     ELSE UNCHANGED <<have, pendingDeletes, pruneOutcome>>
          /\ pruneCalls' = [pruneCalls EXCEPT ![p] = ActiveCalls(@, pendingDeletes'[p])]
    /\ UNCHANGED <<pruneRounds, pendingIHave, pruneMsgs, varsLeaders, outsidePrune>>

\* modifyReplicators(role, q) on node p and the "role" event of onRoleChange:
\* every prune call that is not settled sends its RequestIPrune to the new
\* Replicator
OnRoleChange(p, q) ==
    /\ openTime[p] # -1
    /\ roles[q] # NoRole
    /\ ModifyRing(p, roles[q], q)
    /\ pruneMsgs' = pruneMsgs \cup
            {[type |-> "RequestIPrune", from |-> p, to |-> q, hashes |-> c.hashes] :
                c \in {d \in pruneCalls[p] : q # p /\ openTime[q] # -1}}
    /\ UNCHANGED <<now, openTime, roles, lastEval, have, pendingDeletes,
                   pruneRounds, pruneOutcome, existCounter, pruneCalls, pendingIHave,
                   pruneHandlers, confirmed, outsidePruneModify>>

(***************************************************************************)
(* Part 6: replication of appended entries                                 *)
(* (index.ts: afterOpen, _updateRole, append, _onMessage for               *)
(*  ExchangeHeadsMessage and ResponseRoleMessage, onRoleChange,            *)
(*  distribute, _distribute)                                               *)
(*                                                                         *)
(* Every peer opens the log with a fixed role and never closes it.  The    *)
(* entries are appended without options.replicas and belong to one gid;    *)
(* the clock does not advance while the log is replicated.                 *)
(* log.join adds the entries it is given and the ancestors they refer to.  *)
(***************************************************************************)
\* the role option every peer opens the log with: peer 1 is a Replicator of
\* factor 1, peer 2 a Replicator of a third of the ring, peer 3 an Observer
RoleOption(q) == IF q = 3 THEN 0 ELSE FactorOf(q)

\* the peers that open the log: the Replicator of factor 1 and the Observer
Members == {1, 3}

\* the heads of a log that holds the entries S
HeadsOf(S) == {e \in S : \A o \in S : e \notin entryNext[o]}

\* the entries log.join adds for the heads it is given: the heads and the
\* entries their next pointers lead to
RECURSIVE JoinEntries(_)
JoinEntries(S) ==
    LET more == S \cup UNION {entryNext[h] : h \in S}
    IN IF more = S THEN S ELSE JoinEntries(more)

\* Mutant of Recipients: the heads go to every open peer
Recipients_Everyone(p, leaders) == {q \in Peers : q # p /\ openTime[q] # -1}

\* mode: new SilentDelivery({ to: leaders }): the peers a message to the
\* leaders is delivered to
Recipients(p, leaders) == leaders \ {p}

\* Mutant of NewPeers: no leader counts as new
NewPeers_None(currentPeers, oldPeersSet) == {}

\* _distribute: if (!oldPeersSet?.has(currentPeer))
NewPeers(currentPeers, oldPeersSet) == currentPeers \ oldPeersSet

\* Mutant of UncheckedDeliver: the cached set is not consulted
UncheckedDeliver_AllLeaders(p, currentPeers, oldPeersSet) == currentPeers \ {p}

\* _distribute: the peers that are handed the entries of the gid
UncheckedDeliver(p, currentPeers, oldPeersSet) ==
    Recipients(p, NewPeers(currentPeers, oldPeersSet))

\* the role event of onRoleChange: the onNewPeer listeners of the prune calls
RoleEventRequests(p, q, role) ==
    {[type |-> "RequestIPrune", from |-> p, to |-> q, hashes |-> c.hashes] :
        c \in {d \in pruneCalls[p] : role.factor > 0 /\ q # p}}

InitSharedVars ==
    /\ creator = [h \in Hashes |-> 0]
    /\ entryNext = [h \in Hashes |-> {}]
    /\ unsent = {}
    /\ headMsgs = {}
    /\ gidPeersHistory = [p \in Peers |-> {}]
    /\ distributeQueued = [p \in Peers |-> FALSE]
    /\ distributeTimer = [p \in Peers |-> FALSE]

\* open and afterOpen: the role is set up, _updateRole puts a Replicator on
\* its own ring, subscribes and sends the role to the subscribers; every
\* Replicator that sees the subscription answers with its role
SharedOpen(p) ==
    /\ openTime[p] = -1
    /\ LET role == [factor |-> RoleOption(p), timestamp |-> now]
           update == ModifyReplicators(p, 0, role, p)
           changed == update.changed
       IN /\ openTime' = [openTime EXCEPT ![p] = now]
          /\ roles' = [roles EXCEPT ![p] = role]
          /\ ModifyRingFrom(p, 0, role, p)
          /\ roleMsgs' = roleMsgs
                \cup {[from |-> p, to |-> q, role |-> role, timestamp |-> now] :
                        q \in {n \in Peers : n # p /\ openTime[n] # -1}}
                \cup {[from |-> q, to |-> p, role |-> roles[q], timestamp |-> now] :
                        q \in {n \in Peers : n # p /\ openTime[n] # -1
                                              /\ roles[n].factor > 0}}
          /\ distributeQueued' = [distributeQueued EXCEPT ![p] = @ \/ changed # "none"]
          /\ distributeTimer' = [distributeTimer EXCEPT ![p] = @ \/ changed = "added"]
    /\ fns' = [fns EXCEPT ![p] = OpenFns(@)]
    /\ UNCHANGED <<now, latestRoleMessages, have, pendingDeletes, pruneRounds, pruneOutcome,
                   pruneCalls, pendingIHave, pruneMsgs, creator, entryNext, unsent,
                   headMsgs, gidPeersHistory, outsideOpenRole>>

\* updateRole(role) of a peer that has the log open: _updateRole takes the
\* peer off its own ring or puts its new range there, sends the role to the
\* subscribers and, through onRoleChange, queues a _distribute
SharedUpdateRole(p, factor) ==
    /\ openTime[p] # -1
    /\ roles[p].factor # factor
    /\ LET role == [factor |-> factor, timestamp |-> now]
           update == ModifyReplicators(p, totalParticipation[p], role, p)
           changed == update.changed
       IN /\ roles' = [roles EXCEPT ![p] = role]
          /\ ModifyRing(p, role, p)
          /\ roleMsgs' = roleMsgs
                \cup {[from |-> p, to |-> q, role |-> role, timestamp |-> now] :
                        q \in {n \in Peers : n # p /\ openTime[n] # -1}}
          /\ distributeQueued' = [distributeQueued EXCEPT ![p] = @ \/ changed # "none"]
          /\ distributeTimer' = [distributeTimer EXCEPT ![p] =
                                    @ \/ (changed # "none" /\ factor > 0)]
    /\ UNCHANGED <<now, openTime, latestRoleMessages, have, pendingDeletes,
                   pruneRounds, pruneOutcome, pruneCalls, pendingIHave, pruneMsgs, creator,
                   entryNext, unsent, headMsgs, gidPeersHistory, outsideRole>>

\* append, up to await this.findLeaders: log.append creates the entry on
\* top of the heads
SharedAppend(p, h) ==
    /\ openTime[p] # -1
    /\ creator[h] = 0
    /\ \A g \in Hashes : g < h => creator[g] # 0
    /\ creator' = [creator EXCEPT ![h] = p]
    /\ entryNext' = [entryNext EXCEPT ![h] = HeadsOf(have[p])]
    /\ have' = [have EXCEPT ![p] = @ \cup {h}]
    /\ unsent' = unsent \cup {<<p, h>>}
    /\ UNCHANGED <<now, openTime, roles, ring, latestRoleMessages, roleMsgs,
                   pendingDeletes, pruneRounds, pruneOutcome, pruneCalls, pendingIHave,
                   pruneMsgs, headMsgs, gidPeersHistory, distributeQueued,
                   distributeTimer, outsideShared>>

\* Mutant of AppendMode: the delivery is silent whoever leads
AppendMode_Silent(p, leaders) ==
    [type |-> "SilentDelivery", redundancy |-> 1, to |-> leaders]

\* append: the delivery mode of the message that carries the new entry
AppendMode(p, leaders) ==
    LET isLeader == p \in leaders
    IN [type |-> IF isLeader THEN "SilentDelivery" ELSE "AcknowledgeDelivery",
        redundancy |-> 1, to |-> leaders]

\* append, after await this.findLeaders: the entry is sent to the leaders
SharedAppendSend(p, h) ==
    /\ <<p, h>> \in unsent
    /\ unsent' = unsent \ {<<p, h>>}
    /\ LET leaders == FindLeaders(p, CursorOf(GidOf(h)), DEFAULT_MIN_REPLICAS, now)
       IN headMsgs' = headMsgs \cup
                {[from |-> p, to |-> q, heads |-> {h}, mode |-> AppendMode(p, leaders)] :
                    q \in Recipients(p, leaders)}
    /\ UNCHANGED <<now, openTime, roles, ring, latestRoleMessages, roleMsgs,
                   have, pendingDeletes, pruneRounds, pruneOutcome, pruneCalls, pendingIHave,
                   pruneMsgs, creator, entryNext, gidPeersHistory, distributeQueued,
                   distributeTimer, outsideShared>>

\* _onMessage(ResponseRoleMessage) with modifyReplicators and onRoleChange,
\* taken as one step: the sender is reachable and one message of a peer is
\* handled at a time
SharedRoleReceive(m) ==
    /\ m \in roleMsgs
    /\ LET p == m.to
           prev == latestRoleMessages[p][m.from]
           update == ModifyReplicators(p, totalParticipation[p], m.role, m.from)
           changed == update.changed
       IN IF prev # NoTimestamp /\ prev # 0 /\ prev > m.timestamp
          THEN /\ roleMsgs' = roleMsgs \ {m}
               /\ UNCHANGED <<latestRoleMessages, ring, distributeQueued,
                              distributeTimer, pruneMsgs, totalParticipation, gateLast>>
          ELSE /\ latestRoleMessages' = [latestRoleMessages EXCEPT ![p][m.from] = m.timestamp]
               /\ ModifyRing(p, m.role, m.from)
               /\ roleMsgs' = (roleMsgs \ {m}) \cup
                    {[from |-> p, to |-> m.from, role |-> roles[p], timestamp |-> now] :
                        x \in {y \in {1} : changed = "added"}}
               /\ distributeQueued' = [distributeQueued EXCEPT ![p] = @ \/ changed # "none"]
               /\ distributeTimer' = [distributeTimer EXCEPT ![p] =
                                        @ \/ (changed # "none" /\ m.role.factor > 0)]
               /\ pruneMsgs' = pruneMsgs \cup
                    IF changed # "none" THEN RoleEventRequests(p, m.from, m.role) ELSE {}
    /\ UNCHANGED <<now, openTime, roles, have, pendingDeletes, pruneRounds, pruneOutcome,
                   pruneCalls, pendingIHave, creator, entryNext, unsent, headMsgs,
                   gidPeersHistory, outsideRole>>

\* the timer of onRoleChange, WAIT_FOR_ROLE_MATURITY + 2000 after a
\* Replicator was added or updated: this.distribute()
SharedTimer(p) ==
    /\ distributeTimer[p]
    /\ distributeTimer' = [distributeTimer EXCEPT ![p] = FALSE]
    /\ distributeQueued' = [distributeQueued EXCEPT ![p] = TRUE]
    /\ UNCHANGED <<now, openTime, roles, ring, latestRoleMessages, roleMsgs,
                   have, pendingDeletes, pruneRounds, pruneOutcome, pruneCalls, pendingIHave,
                   pruneMsgs, creator, entryNext, unsent, headMsgs, gidPeersHistory,
                   outsideShared>>

\* _onMessage(ExchangeHeadsMessage).  waitForIsLeader answers with the
\* leaders when the peer is one of them; otherwise its timeout answers false
\* and only the heads that refer to entries of a gid the peer has heads of
\* are joined, and pruned.  The onChange callback of the log answers the
\* pending IHave of every added entry.  The new entries never carry fewer
\* minimum replicas than the heads the peer holds.
HeadsReceive(m) ==
    /\ m \in headMsgs
    /\ headMsgs' = headMsgs \ {m}
    /\ LET p == m.to
           filteredHeads == m.heads \ have[p]
           maxReplicasFromHead ==
               IF HeadsOf(have[p]) # {} THEN MaxReplicasOf(HeadsOf(have[p]))
               ELSE DEFAULT_MIN_REPLICAS
           maxReplicasFromNewEntries ==
               IF filteredHeads # {} THEN MaxReplicasOf(filteredHeads) ELSE 0
           leaders == FindLeaders(p, CursorOf(GidOf(1)),
                                  Max2(maxReplicasFromHead, maxReplicasFromNewEntries), now)
           isLeader == p \in leaders
           toMerge == IF isLeader THEN filteredHeads
                      ELSE {h \in filteredHeads :
                                entryNext[h] # {} /\ HeadsOf(have[p]) # {}}
           added == JoinEntries(toMerge) \ have[p]
       IN /\ gidPeersHistory' =
                IF filteredHeads # {} /\ isLeader /\ m.from \in leaders
                THEN [gidPeersHistory EXCEPT ![p] = @ \cup {m.from}]
                ELSE gidPeersHistory
          /\ have' = [have EXCEPT ![p] = @ \cup added]
          /\ pendingIHave' = [pendingIHave EXCEPT ![p] =
                                {x \in @ : x[1] \notin added}]
          /\ IF isLeader \/ toMerge = {}
             THEN /\ pruneMsgs' = pruneMsgs \cup
                        {[type |-> "ResponseIPrune", from |-> p, to |-> x[2],
                          hashes |-> {x[1]}] : x \in Answered(p, pendingIHave[p], added)}
                  /\ UNCHANGED <<pendingDeletes, pruneRounds, pruneOutcome, pruneCalls>>
             ELSE PruneCall(p, toMerge)
    /\ UNCHANGED <<now, openTime, roles, ring, latestRoleMessages, roleMsgs,
                   creator, entryNext, unsent, distributeQueued, distributeTimer,
                   outsideShared>>

\* _distribute, run from the queue: the heads go to the leaders that were
\* not leaders at the last pass; a peer that is no leader prunes the heads
\* (an Observer only those it did not create), a leader rejects its pending
\* deletes of them
Distribute(p) ==
    /\ distributeQueued[p]
    /\ distributeQueued' = [distributeQueued EXCEPT ![p] = FALSE]
    /\ LET heads == HeadsOf(have[p])
           currentPeers ==
               IF heads = {} THEN {}
               ELSE FindLeaders(p, CursorOf(GidOf(1)), MaxReplicasOf(heads), now)
           isLeader == p \in currentPeers
           entriesToDelete ==
               IF isLeader \/ currentPeers = {} THEN {}
               ELSE IF roles[p].factor = 0 THEN {h \in heads : creator[h] # p}
               ELSE heads
       IN IF heads = {}
          THEN UNCHANGED <<gidPeersHistory, passCache, headMsgs, pendingDeletes, pruneRounds,
                           pruneOutcome, pruneCalls, pruneMsgs>>
          ELSE /\ gidPeersHistory' = [gidPeersHistory EXCEPT ![p] = currentPeers]
               /\ passCache' = [passCache EXCEPT ![p] = currentPeers]
               /\ headMsgs' = headMsgs \cup
                    {[from |-> p, to |-> q, heads |-> heads,
                      mode |-> [type |-> "SilentDelivery", redundancy |-> 1, to |-> {q}]] :
                        q \in UncheckedDeliver(p, currentPeers, gidPeersHistory[p])}
               /\ IF isLeader
                  THEN /\ pendingDeletes' = [pendingDeletes EXCEPT ![p] =
                                [h \in Hashes |-> IF h \in heads THEN 0 ELSE @[h]]]
                       /\ pruneCalls' = [pruneCalls EXCEPT ![p] =
                                            ActiveCalls(@, pendingDeletes'[p])]
                       /\ pruneOutcome' = [pruneOutcome EXCEPT ![p] =
                                [h \in Hashes |->
                                    IF h \in heads /\ pendingDeletes[p][h] # 0
                                    THEN "is leader again" ELSE @[h]]]
                       /\ UNCHANGED <<pruneRounds, pruneMsgs>>
                  ELSE IF entriesToDelete = {}
                       THEN UNCHANGED <<pendingDeletes, pruneRounds, pruneOutcome, pruneCalls, pruneMsgs>>
                       ELSE PruneCall(p, entriesToDelete)
    /\ UNCHANGED <<now, openTime, roles, ring, latestRoleMessages, roleMsgs,
                   have, pendingIHave, creator, entryNext, unsent, distributeTimer,
                   outsideDistribute>>

(***************************************************************************)
(* Part 7: the entry index                                                 *)
(* (packages/log/src/entry-index.ts, class EntryIndex)                     *)
(***************************************************************************)
\* entry.hash === undefined
NoHash == 0

RECURSIVE SumOf(_)
SumOf(S) == IF S = {} THEN 0 ELSE LET x == CHOOSE y \in S : TRUE IN x + SumOf(S \ {x})

\* Entry.toMultihash: the address of the entry serialized without its hash
\* field, a function of its payload, its type and its next references
ToMultihash(entry) ==
    16 * SumOf(entry.next) + 4 * entry.payload + (IF entry.type = "CUT" THEN 2 ELSE 0)

\* the entries that reach the index: a root, and entries that refer to it
RootEntry == [payload |-> 1, next |-> {}, type |-> "APPEND"]
IxContents ==
    {RootEntry,
     [payload |-> 2, next |-> {ToMultihash(RootEntry)}, type |-> "APPEND"],
     [payload |-> 3, next |-> {ToMultihash(RootEntry)}, type |-> "CUT"]}
IxHashes == {ToMultihash(c) : c \in IxContents}

\* the hash field an entry arrives with: none, the hash of its contents, or
\* the hash of other contents
PresetHashes(c) ==
    {NoHash, ToMultihash(c)} \cup
    (IF c.payload = 2 THEN {ToMultihash(RootEntry)} ELSE {})

\* the put calls of a behaviour, and how many of them may be suspended at once
PutIds == 1..3
InFlightLimit == 2

NoShallow ==
    [hash |-> NoHash, head |-> FALSE, next |-> {}, type |-> "NONE", payload |-> 0,
     recomputed |-> FALSE]
NoDelete == [hash |-> NoHash, removed |-> NoShallow, heads |-> {}, present |-> {}]

\* entry.toShallow(isHead); `recomputed' is history: the put recomputed the hash
ToShallow(entry, isHead, recomputed) ==
    [hash |-> entry.hash, head |-> isHead, next |-> entry.next, type |-> entry.type,
     payload |-> entry.payload, recomputed |-> recomputed]

\* properties.index.put of a shallow entry: the index holds one value per id
IndexPut(idx, shallow) == {e \in idx : e.hash # shallow.hash} \cup {shallow}

IndexHas(idx, k) == \E e \in idx : e.hash = k

CountHasNext(idx, next) == Cardinality({e \in idx : next \in e.next})

PrivateUpdateNextHeadProperty(idx, from, isHead) ==
    IF from.type = "CUT" THEN idx
    ELSE {IF /\ e.hash \in from.next
             /\ (isHead => CountHasNext(idx, e.hash) = 0)
          THEN [e EXCEPT !.head = isHead]
          ELSE e : e \in idx}

\* put, lines 154-171: the hash of the entry after the recomputation, or
\* NoHash when the call throws.  The comparison is made after entry.hash was
\* set back to existingHash.
RecomputedHash(existingHash, hash) ==
    LET entryHash == existingHash
    IN IF entryHash = NoHash THEN hash
       ELSE IF existingHash # entryHash THEN NoHash
       ELSE entryHash

\* the hash a suspended put call is about
HashOfPut(h) ==
    IF h.pc = "toMultihash"
    THEN RecomputedHash(h.existingHash, ToMultihash(h.entry))
    ELSE h.entry.hash

InFlight(k) == \E h \in putHandlers : HashOfPut(h) = k

\* no _distribute pass has cached a leader set yet
NoPass == {0}

InitPassVars == passCache = [p \in Peers |-> NoPass]

InitIndexVars ==
    /\ index = {}
    /\ length = 0
    /\ insertionPromises = {}
    /\ putHandlers = {}
    /\ putCalls = 0
    /\ putHistory = [adds |-> [k \in IxHashes |-> 0],
                     writes |-> [k \in IxHashes |-> 0],
                     called |-> [k \in IxHashes |-> FALSE],
                     done |-> [k \in IxHashes |-> FALSE],
                     sequential |-> [k \in IxHashes |-> FALSE]]
    /\ lastDelete = NoDelete

\* put, lines 179-228: the call of the handler `h' continues with the hash of
\* its entry settled
PutLookup(h, others, history) ==
    LET k == h.entry.hash
    IN IF k \in insertionPromises
       THEN /\ putHandlers' = others
            /\ putHistory' = history
            /\ UNCHANGED <<index, length, insertionPromises>>
       ELSE /\ insertionPromises' = insertionPromises \cup {k}
            /\ IF h.unique
               THEN /\ length' = length + 1
                    /\ putHandlers' = others \cup {[h EXCEPT !.pc = "put"]}
                    /\ putHistory' =
                          [history EXCEPT !.adds = [@ EXCEPT ![k] = @ + 1]]
               ELSE /\ length' = length
                    /\ putHandlers' = others \cup {[h EXCEPT !.pc = "has"]}
                    /\ putHistory' = history
            /\ UNCHANGED index

PutCall(c, preset, unique, isHead, toMultiHash) ==
    /\ putCalls < Cardinality(PutIds)
    /\ Cardinality(putHandlers) < InFlightLimit
    /\ putCalls' = putCalls + 1
    /\ lastDelete' = NoDelete
    /\ LET entry == [hash |-> preset, payload |-> c.payload, next |-> c.next,
                     type |-> c.type]
           h == [id |-> CHOOSE i \in 1..InFlightLimit :
                            \A o \in putHandlers : o.id # i, entry |-> entry, existingHash |-> preset,
                 unique |-> unique, isHead |-> isHead, toMultiHash |-> toMultiHash,
                 pc |-> "toMultihash"]
           k == IF toMultiHash THEN HashOfPut(h) ELSE preset
           history == IF k = NoHash THEN putHistory
                      ELSE [putHistory EXCEPT
                              !.called = [@ EXCEPT ![k] = TRUE],
                              !.sequential = [@ EXCEPT ![k] =
                                  @ \/ putHistory.done[k]]]
       IN IF toMultiHash
          THEN /\ putHandlers' = putHandlers \cup {[h EXCEPT !.entry.hash = NoHash]}
               /\ putHistory' = history
               /\ UNCHANGED <<index, length, insertionPromises>>
          ELSE IF preset = NoHash
          THEN /\ putHistory' = putHistory
               /\ UNCHANGED <<index, length, insertionPromises, putHandlers>>
          ELSE PutLookup([h EXCEPT !.pc = "lookup"], putHandlers, history)
    /\ UNCHANGED <<varsLog, varsLeaders, varsList, varsPass, varsMessage, varsRoutes, varsCalls, varsGate, varsRole, varsStream, varsPrune,
                   varsShared, varsClose, fns>>

\* put resumes from await Entry.toMultihash
PutHashed(h) ==
    /\ h \in putHandlers
    /\ h.pc = "toMultihash"
    /\ lastDelete' = NoDelete
    /\ LET k == RecomputedHash(h.existingHash, ToMultihash(h.entry))
           others == putHandlers \ {h}
       IN IF k = NoHash
          THEN /\ putHandlers' = others
               /\ putHistory' = putHistory
               /\ UNCHANGED <<index, length, insertionPromises>>
          ELSE PutLookup([h EXCEPT !.entry.hash = k, !.pc = "lookup"], others, putHistory)
    /\ UNCHANGED <<putCalls, varsLog, varsLeaders, varsList, varsPass, varsMessage, varsRoutes, varsCalls, varsGate, varsRole, varsStream,
                   varsPrune, varsShared, varsClose, fns>>

\* fn resumes from await this.has(entry.hash)
PutHas(h) ==
    /\ h \in putHandlers
    /\ h.pc = "has"
    /\ lastDelete' = NoDelete
    /\ putHandlers' = (putHandlers \ {h}) \cup {[h EXCEPT !.pc = "put"]}
    /\ IF ~IndexHas(index, h.entry.hash)
       THEN /\ length' = length + 1
            /\ putHistory' = [putHistory EXCEPT
                                 !.adds = [@ EXCEPT ![h.entry.hash] = @ + 1]]
       ELSE /\ length' = length
            /\ putHistory' = putHistory
    /\ UNCHANGED <<index, insertionPromises, putCalls, varsLog, varsLeaders, varsList, varsPass, varsMessage, varsRoutes, varsCalls, varsGate,
                   varsRole, varsStream, varsPrune, varsShared, varsClose, fns>>

\* fn at line 191: properties.index.put(entry.toShallow(properties.isHead))
PutIndex(h) ==
    /\ h \in putHandlers
    /\ h.pc = "put"
    /\ lastDelete' = NoDelete
    /\ index' = IndexPut(index, ToShallow(h.entry, h.isHead, h.toMultiHash))
    /\ putHandlers' = (putHandlers \ {h}) \cup {[h EXCEPT !.pc = "next"]}
    /\ putHistory' = [putHistory EXCEPT
                         !.writes = [@ EXCEPT ![h.entry.hash] = @ + 1]]
    /\ UNCHANGED <<length, insertionPromises, putCalls, varsLog, varsLeaders, varsList, varsPass, varsMessage, varsRoutes, varsCalls, varsGate,
                   varsRole, varsStream, varsPrune, varsShared, varsClose, fns>>

\* fn at lines 222-224: the next entries are marked as not heads and the
\* promise is removed
PutNext(h) ==
    /\ h \in putHandlers
    /\ h.pc = "next"
    /\ lastDelete' = NoDelete
    /\ index' = PrivateUpdateNextHeadProperty(index, h.entry, FALSE)
    /\ insertionPromises' = insertionPromises \ {h.entry.hash}
    /\ putHandlers' = putHandlers \ {h}
    /\ putHistory' = [putHistory EXCEPT !.done = [@ EXCEPT ![h.entry.hash] = TRUE]]
    /\ UNCHANGED <<length, putCalls, varsLog, varsLeaders, varsList, varsPass, varsMessage, varsRoutes, varsCalls, varsGate,
                   varsRole, varsStream, varsPrune, varsShared, varsClose, fns>>

\* EntryIndex.delete(k)
IndexDelete(k) ==
    LET found == {e \in index : e.hash = k}
    IN /\ putHandlers = {}
       /\ lastDelete # NoDelete \/ found # {}
       /\ IF found = {}
          THEN /\ lastDelete' = NoDelete
               /\ UNCHANGED <<index, length, putHistory>>
          ELSE LET shallow == CHOOSE e \in found : TRUE
                   rest == index \ found
               IN /\ index' = PrivateUpdateNextHeadProperty(rest, shallow, TRUE)
                  /\ length' = length - Cardinality(found)
                  /\ lastDelete' = [hash |-> k, removed |-> shallow,
                                    heads |-> {e.hash : e \in {x \in index : x.head}},
                                    present |-> {e.hash : e \in index}]
                  /\ putHistory' = [putHistory EXCEPT
                                       !.sequential = [@ EXCEPT ![k] = TRUE]]
       /\ UNCHANGED <<insertionPromises, putHandlers, putCalls, varsLog, varsLeaders,
                      varsList, varsPass, varsMessage, varsRoutes, varsCalls, varsGate, varsRole, varsStream, varsPrune, varsShared, varsClose,
                      fns>>

(***************************************************************************)
(* Part 8: signed messages                                                 *)
(* (messages.ts: MessageHeader, sign, verifyMultiSig, Message.verify,      *)
(*  ACK.sign, ACK.verify)                                                  *)
(*                                                                         *)
(* One message object is followed from its construction.  A call of sign   *)
(* or verify is one step: the caller awaits it before it touches the       *)
(* message again (stream.test.ts 505-598: await msg.sign(...)).            *)
(***************************************************************************)
\* const ACKNOWLEDGE_VARIANT = 1
ACKNOWLEDGE_VARIANT == 1

\* the keys that sign, the `to' lists of a header, the bodies and the
\* values of seenCounter that are drawn
Signers == 1..2
ToLists == {<<>>, <<2, 3>>}
Bodies == 1..2
Counters == 0..1
Expiries == {0, MaxTime}

\* the most signatures a header collects
SignatureLimit == Cardinality(Signers)

\* header.signatures = undefined, and new Signatures(list)
Undefined == [defined |-> FALSE, signatures |-> <<>>]
Signatures(list) == [defined |-> TRUE, signatures |-> list]

\* no message was made yet
NoMessage ==
    [variant |-> -1, id |-> 0, expires |-> 0, to |-> <<>>, signatures |-> Undefined,
     body |-> 0, seenCounter |-> 0, verified |-> "null"]

\* new DataMessage({ header: new MessageHeader({ to, expires, id }), data })
\* and new ACK({ messageIdToAcknowledge, seenCounter, header }): the header
\* starts with new Signatures(); `body' is the data of a DataMessage and the
\* messageIdToAcknowledge of an ACK
NewMessage(variant, id, expires, to, body, seenCounter) ==
    [variant |-> variant, id |-> id, expires |-> expires, to |-> to,
     signatures |-> Signatures(<<>>), body |-> body,
     seenCounter |-> IF variant = ACKNOWLEDGE_VARIANT THEN Min2(255, seenCounter) ELSE 0,
     verified |-> "null"]

\* serialize(obj): the variant byte, the header (id, expires, the vector
\* `to' with its length, the option byte of signatures and, when they are
\* set, their number and public keys) and the body; an ACK ends with
\* seenCounter
Serialize(obj) ==
    <<obj.variant, obj.id, obj.expires, Len(obj.to)>> \o obj.to
        \o (IF obj.signatures.defined
            THEN <<1, Len(obj.signatures.signatures)>>
                    \o [i \in 1..Len(obj.signatures.signatures) |->
                            obj.signatures.signatures[i].publicKey]
            ELSE <<0>>)
        \o (IF obj.variant = ACKNOWLEDGE_VARIANT THEN <<obj.body, obj.seenCounter>>
            ELSE <<obj.body>>)

\* signer(bytes) of the key k: a signature binds the key and the bytes
SignBytes(k, bytes) == [publicKey |-> k, signature |-> <<k>> \o bytes]

\* verify(signature, bytes)
VerifySignature(signature, bytes) ==
    signature.signature = <<signature.publicKey>> \o bytes

\* Mutant of Sign: the bytes that are signed hold the list `to'
Sign_WithTo(obj, k) ==
    [obj EXCEPT !.signatures =
        Signatures(obj.signatures.signatures
                       \o <<SignBytes(k, Serialize([obj EXCEPT !.signatures = Undefined]))>>)]

\* sign(obj, signer): `to' is emptied and the signatures are taken off, the
\* bytes are signed, the signature is put behind the earlier ones and `to'
\* is put back
Sign(obj, k) ==
    LET to == obj.to
        signatures == obj.signatures
        signature == SignBytes(k, Serialize([obj EXCEPT !.to = <<>>,
                                                        !.signatures = Undefined]))
    IN [obj EXCEPT !.signatures =
                        Signatures(IF signatures.defined
                                   THEN signatures.signatures \o <<signature>>
                                   ELSE <<signature>>),
                   !.to = to]

\* verifyMultiSig(message, expectSignatures)
VerifyMultiSig(message, expectSignatures) ==
    LET signatures == message.signatures
    IN IF ~signatures.defined \/ Len(signatures.signatures) = 0
       THEN ~expectSignatures
       ELSE LET bytes == Serialize([message EXCEPT !.to = <<>>,
                                                   !.signatures = Undefined])
            IN \A i \in 1..Len(signatures.signatures) :
                    VerifySignature(signatures.signatures[i], bytes)

\* MessageHeader.verify(): this.expires >= +new Date()
HeaderVerify(message, time) == message.expires >= time

\* Message.verify(expectSignatures): the result of the first call is kept in
\* _verified; the message after the call and what the call returns
MessageVerify(message, expectSignatures, time) ==
    IF message.verified # "null"
    THEN [message |-> message, verified |-> message.verified = "true"]
    ELSE LET verified == HeaderVerify(message, time)
                            /\ VerifyMultiSig(message, expectSignatures)
         IN [message |-> [message EXCEPT !.verified = IF verified THEN "true" ELSE "false"],
             verified |-> verified]

\* ACK.sign(signer): seenCounter is 0 while sign runs
AckSign(obj, k) ==
    LET seenCounter == obj.seenCounter
    IN [Sign([obj EXCEPT !.seenCounter = 0], k) EXCEPT !.seenCounter = seenCounter]

\* Mutant of AckVerify: seenCounter is verified as it is
AckVerify_WithCounter(message, expectSignatures, time) ==
    MessageVerify(message, expectSignatures, time)

\* ACK.verify(expectSignatures): seenCounter is 0 while Message.verify runs
AckVerify(message, expectSignatures, time) ==
    LET seenCounter == message.seenCounter
        call == MessageVerify([message EXCEPT !.seenCounter = 0], expectSignatures, time)
    IN [message |-> [call.message EXCEPT !.seenCounter = seenCounter],
        verified |-> call.verified]

\* message.sign(signer) and message.verify(expectSignatures) of either class
SignOf(obj, k) ==
    IF obj.variant = ACKNOWLEDGE_VARIANT THEN AckSign(obj, k) ELSE Sign(obj, k)
VerifyOf(message, expectSignatures, time) ==
    IF message.variant = ACKNOWLEDGE_VARIANT
    THEN AckVerify(message, expectSignatures, time)
    ELSE MessageVerify(message, expectSignatures, time)

\* no call of sign or verify was made
NoCall ==
    [op |-> "none", before |-> NoMessage, after |-> NoMessage, expectSignatures |-> FALSE,
     verified |-> FALSE, time |-> 0]

InitMessageVars ==
    /\ signedMsg = NoMessage
    /\ lastCall = NoCall
    /\ intact = TRUE

\* a message is made
MessageCreate(variant, id, expires, to, body, seenCounter) ==
    /\ signedMsg = NoMessage
    /\ signedMsg' = NewMessage(variant, id, expires, to, body, seenCounter)
    /\ UNCHANGED <<lastCall, intact, outsideMessage>>

\* await message.sign(signer) with the signer of key k
MessageSign(k) ==
    /\ signedMsg # NoMessage
    /\ Len(signedMsg.signatures.signatures) < SignatureLimit
    /\ signedMsg' = SignOf(signedMsg, k)
    /\ lastCall' = [NoCall EXCEPT !.op = "sign", !.before = signedMsg, !.after = signedMsg']
    /\ UNCHANGED <<intact, outsideMessage>>

\* await message.verify(expectSignatures)
MessageVerifyCall(expectSignatures) ==
    /\ signedMsg # NoMessage
    /\ signedMsg' = VerifyOf(signedMsg, expectSignatures, now).message
    /\ lastCall' = [op |-> "verify", before |-> signedMsg, after |-> signedMsg',
                    expectSignatures |-> expectSignatures,
                    verified |-> VerifyOf(signedMsg, expectSignatures, now).verified,
                    time |-> now]
    /\ UNCHANGED <<intact, outsideMessage>>

\* the message is sent and received: Message.from(message.bytes()) makes a
\* new object, whose _verified is not set; ACK.from throws for an ACK
\* without signatures
MessageFrom ==
    /\ signedMsg # NoMessage
    /\ signedMsg.verified # "null"
    /\ signedMsg.variant = ACKNOWLEDGE_VARIANT =>
            Len(signedMsg.signatures.signatures) > 0
    /\ signedMsg' = [signedMsg EXCEPT !.verified = "null"]
    /\ UNCHANGED <<lastCall, intact, outsideMessage>>

\* a relay rewrites the list `to' of the header
RelayTo(to) ==
    /\ signedMsg # NoMessage
    /\ signedMsg.to # to
    /\ signedMsg' = [signedMsg EXCEPT !.to = to]
    /\ UNCHANGED <<lastCall, intact, outsideMessage>>

\* a relay that has seen the acknowledged message before raises seenCounter
RelaySeen ==
    /\ signedMsg.variant = ACKNOWLEDGE_VARIANT
    /\ signedMsg.seenCounter + 1 \in Counters
    /\ signedMsg' = [signedMsg EXCEPT !.seenCounter = @ + 1]
    /\ UNCHANGED <<lastCall, intact, outsideMessage>>

\* the body of the message is altered on its way
Tamper(body) ==
    /\ signedMsg # NoMessage
    /\ signedMsg.body # body
    /\ signedMsg' = [signedMsg EXCEPT !.body = body]
    /\ intact' = (intact /\ Len(signedMsg.signatures.signatures) = 0)
    /\ UNCHANGED <<lastCall, outsideMessage>>

(***************************************************************************)
(* Part 9: the direct stream: routes and next hops                         *)
(* (the routing of the stream is modelled from the specification, section  *)
(*  4.4, and from stream.test.ts 326-465; peers 0..3 of the tests are the  *)
(*  stream nodes 1..4, and node 1 is the sender)                           *)
(***************************************************************************)
StreamNodes == 1..4
Sender == 1
Targets == {3, 4}
Distances == 0..2

\* session.connect of the tests: the line 1 - 2 - 3 - 4
LineEdges == {{1, 2}, {2, 3}, {3, 4}}

\* the connections that are added later
LaterEdges == {{1, 3}, {2, 4}}

\* the nodes with a stream to node n
LinksOf(n, E) == {o \in StreamNodes : {n, o} \in E /\ o # n}

\* the nodes that a message reaches in at most k relays from n without
\* passing the sender
RECURSIVE Reach(_, _, _)
Reach(n, k, E) ==
    IF k = 0 THEN {n}
    ELSE LET near == Reach(n, k - 1, E)
         IN near \cup UNION {LinksOf(o, E) \ {Sender} : o \in near}

\* whether t is reached from n, and the number of relays the shortest path
\* from n to t takes
Reaches(n, t, E) == t \in Reach(n, Cardinality(StreamNodes), E)
HopsFrom(n, t, E) ==
    CHOOSE k \in 0..Cardinality(StreamNodes) :
        /\ t \in Reach(n, k, E)
        /\ \A j \in 0..(k - 1) : t \notin Reach(n, j, E)

\* no next hop
NoHop == [hash |-> 0, distance |-> -1]

\* routes.add(from, neighbour, target, distance): the next hop is put in
\* the list of the target; a hop that is there already takes the new distance
RoutesAddOp(list, neighbour, distance) ==
    {r \in list : r.hash # neighbour} \cup {[hash |-> neighbour, distance |-> distance]}

\* the next hops of a list with the shortest path
Shortest(list) == {r \in list : \A o \in list : r.distance <= o.distance}

\* Mutant of NextHops: every known next hop is written to
NextHops_All(t, list, neighbours) ==
    {IF list = {} THEN neighbours ELSE {r.hash : r \in list} \cup ({t} \cap neighbours)}

\* the sets of neighbours a message for target t with redundancy 1 can be
\* written to: the target itself when there is a stream to it, else the
\* next hop with the shortest known path, else every neighbour
NextHops(t, list, neighbours) ==
    IF t \in neighbours THEN {{t}}
    ELSE IF list # {} THEN {{r.hash} : r \in Shortest(list)}
    ELSE {neighbours}

\* nothing was written
NoWrite ==
    [op |-> "none", target |-> 0, written |-> {}, routes |-> {}, neighbours |-> {},
     learned |-> NoHop]

InitRoutesVars ==
    /\ edges = LineEdges
    /\ routes = [t \in Targets |-> {}]
    /\ learned = [t \in Targets |-> NoHop]
    /\ lastWrite = NoWrite

\* session.connect([[a, b]]): the two nodes get a stream to each other
Connect(e) ==
    /\ e \notin edges
    /\ edges' = edges \cup {e}
    /\ UNCHANGED <<routes, learned, lastWrite, outsideRoutes>>

\* routes.add(sender, neighbour, target, distance)
RoutesAdd(neighbour, t, distance) ==
    /\ neighbour \in LinksOf(Sender, edges)
    /\ neighbour # t
    /\ routes' = [routes EXCEPT ![t] = RoutesAddOp(@, neighbour, distance)]
    /\ UNCHANGED <<edges, learned, lastWrite, outsideRoutes>>

\* publish(data, { to: [t] }) with redundancy 1
StreamPublish(t) ==
    /\ \E written \in NextHops(t, routes[t], LinksOf(Sender, edges)) :
          lastWrite' = [op |-> "publish", target |-> t, written |-> written,
                        routes |-> routes[t], neighbours |-> LinksOf(Sender, edges),
                        learned |-> learned[t]]
    /\ UNCHANGED <<edges, routes, learned, outsideRoutes>>

\* a seek for t: the message is written to every neighbour and relayed; the
\* copy that arrives first is acknowledged by t, the later ones are dropped
\* as seen, and the acknowledgement tells the sender the next hop it came
\* through and the length of its path
StreamSeek(t) ==
    /\ t \notin LinksOf(Sender, edges)
    /\ \E n \in LinksOf(Sender, edges) :
          /\ Reaches(n, t, edges)
          /\ \A o \in LinksOf(Sender, edges) :
                Reaches(o, t, edges) => HopsFrom(n, t, edges) <= HopsFrom(o, t, edges)
          /\ LET hop == [hash |-> n, distance |-> HopsFrom(n, t, edges)]
             IN /\ routes' = [routes EXCEPT ![t] = RoutesAddOp(@, n, hop.distance)]
                /\ learned' = [learned EXCEPT ![t] = hop]
    /\ lastWrite' = [op |-> "seek", target |-> t, written |-> LinksOf(Sender, edges),
                     routes |-> routes[t], neighbours |-> LinksOf(Sender, edges),
                     learned |-> learned[t]]
    /\ UNCHANGED <<edges, outsideRoutes>>

(***************************************************************************)
(* Part 10: calls that return a value: the cover set, traverse, compare    *)
(* (index.ts getReplicatorUnion; Log.traverse; Entry.compare)              *)
(***************************************************************************)
\* the factors a Replicator is made with when cover sets are asked for
CoverFactors == {Width \div 6, Width \div 2}

\* the state of the walk of getReplicatorUnion: the collector `set', the
\* captured `distance' and `nextPoint', and the `matured' counter and the
\* `diffs' of collectNodesAroundPoint
CoverStart(startNode) ==
    [set |-> {}, distance |-> 0, nextPoint |-> startNode.offset, matured |-> 0,
     diffs |-> <<>>]

\* done: () => distance >= coveringWidth, with coveringWidth = width / minReplicas
CoverDone(acc, minReplicas) == acc.distance * minReplicas >= Width

\* one round of the loop of collectNodesAroundPoint with the callbacks of
\* getReplicatorUnion: onMatured adds the factor of the rect to the distance
\* and moves the point on by the factor of the rect the walk started at
\* (walker!.value.role.factor)
CoverVisit(acc, rect, startNode, time, roleAge) ==
    IF Covers(rect, acc.nextPoint)
    THEN IF IsMatured(rect, time, roleAge)
         THEN [acc EXCEPT !.set = @ \cup {rect.publicKey},
                          !.matured = @ + 1,
                          !.distance = @ + rect.factor,
                          !.nextPoint = (@ + startNode.factor) % Width]
         ELSE [acc EXCEPT !.set = @ \cup {rect.publicKey}]
    ELSE [acc EXCEPT !.diffs = Append(@, rect)]

\* while (currentNode && !done()) { ...; currentNode = currentNode.next ||
\* peers.head; if (startNode equals currentNode) break }: round k visits the
\* k-th rect after the start, around the ring
RECURSIVE CoverWalk(_, _, _, _, _, _, _)
CoverWalk(acc, peers, start, k, minReplicas, time, roleAge) ==
    IF k = Len(peers) \/ CoverDone(acc, minReplicas) THEN acc
    ELSE CoverWalk(CoverVisit(acc, peers[((start - 1 + k) % Len(peers)) + 1],
                              peers[start], time, roleAge),
                   peers, start, k + 1, minReplicas, time, roleAge)

\* collectNodesAroundPoint as getReplicatorUnion calls it, from the rect at
\* index `start': the keys in the collector when it returns
CollectCover(peers, start, minReplicas, time, roleAge) ==
    LET acc == CoverWalk(CoverStart(peers[start]), peers, start, 0, minReplicas,
                         time, roleAge)
    IN acc.set \cup
         IF acc.matured = 0
         THEN AddUntilMatured(SortDiffs(acc.diffs, acc.nextPoint), time, roleAge)
         ELSE {}

\* the rect the walk starts at, 0 for none: the own rect for a Replicator,
\* else the rect `seed - 1' steps from the head, at most the tail, with
\* seed = Math.round(peers.length * Math.random())
CoverStartIndex(peers, p, isReplicator, seed) ==
    IF Len(peers) = 0 THEN 0
    ELSE IF isReplicator
         THEN IF \E i \in 1..Len(peers) : peers[i].publicKey = p
              THEN CHOOSE i \in 1..Len(peers) : peers[i].publicKey = p
              ELSE 0
    ELSE Max2(1, Min2(seed, Len(peers)))

\* getReplicatorUnion(roleAge) on the ring `peers' of node p
GetReplicatorUnion(peers, p, isReplicator, seed, replicasMin, time, roleAge) ==
    LET start == CoverStartIndex(peers, p, isReplicator, seed)
    IN IF start = 0 THEN {}
       ELSE CollectCover(peers, start, Min2(Len(peers), replicasMin), time, roleAge)

NoCover ==
    [ring |-> <<>>, start |-> 0, minReplicas |-> 0, time |-> -1, roleAge |-> -1,
     set |-> {}]

NoTraverse == [log |-> EmptyLog, roots |-> {}, amount |-> 0, result |-> <<>>]

\* the entries compare is called with: roots of two identities, and entries
\* the two identities have appended on top of a root, each in its own log
PoolRoots == {[id |-> i, time |-> 1, next |-> {}, refs |-> {}] : i \in 1..2}
EntryPool ==
    PoolRoots \cup {[id |-> i, time |-> 2, next |-> {r}, refs |-> {}] :
                        i \in 1..2, r \in PoolRoots}

\* the arrays of distinct entries of the pool, up to three entries long
RECURSIVE ArraysOf(_, _)
ArraysOf(S, n) ==
    IF n = 0 THEN {<<>>}
    ELSE LET shorter == ArraysOf(S, n - 1)
         IN shorter \cup {Append(s, e) : s \in shorter, e \in S}

PoolArrays ==
    {s \in ArraysOf(EntryPool, 3) :
        Len(s) >= 2 /\ \A i \in 1..Len(s), j \in 1..Len(s) : i # j => s[i] # s[j]}

NoCompare ==
    LET none == [id |-> 0, time |-> 0, next |-> {}, refs |-> {}]
    IN [called |-> FALSE, a |-> none, b |-> none, ab |-> 0, ba |-> 0]
NoSort == [input |-> <<>>, output |-> <<>>]

InitCallsVars ==
    /\ lastCover = NoCover
    /\ lastTraverse = NoTraverse
    /\ lastCompare = NoCompare
    /\ lastSort = NoSort
    /\ deleteHandlers = {}
    /\ updaters = {}
    /\ removed = {}
    /\ lastPrune = NoPrune
    /\ queue = [p \in Peers |-> [size |-> 0, pending |-> 0, timers |-> 0]]
    /\ passHistory = [p \in Peers |-> [changes |-> 0, started |-> 0, dropped |-> 0]]

\* Entry.compare(a, b) and Entry.compare(b, a)
CompareCall(a, b) ==
    /\ lastCompare' = [called |-> TRUE, a |-> a, b |-> b,
                       ab |-> EntryCompare(a, b), ba |-> EntryCompare(b, a)]
    /\ UNCHANGED <<varsLog, varsLeaders, varsList, varsIndex, varsMessage, varsRoutes,
                   varsGate, varsPass, varsRole, varsStream, varsPrune, varsShared,
                   varsClose, fns, lastCover, lastTraverse, lastSort, deleteHandlers, updaters,
                   removed, lastPrune, queue, passHistory>>

\* entries.sort(Entry.compare)
SortCall(entries) ==
    /\ lastSort' = [input |-> entries, output |-> SortAsc(entries)]
    /\ UNCHANGED <<varsLog, varsLeaders, varsList, varsIndex, varsMessage, varsRoutes,
                   varsGate, varsPass, varsRole, varsStream, varsPrune, varsShared,
                   varsClose, fns, lastCover, lastTraverse, lastCompare, deleteHandlers, updaters,
                   removed, lastPrune, queue, passHistory>>

\* peer q takes the role of a replicator with a factor of its choice
SetRoleOf(q, factor) ==
    /\ roles[q] = NoRole
    /\ roles' = [roles EXCEPT ![q] = [factor |-> factor, timestamp |-> now]]
    /\ UNCHANGED <<now, openTime, ring, lastEval, varsRole, outsideRing>>

\* node p calls getReplicatorUnion() with this.replicas.min = replicasMin
Cover(p, replicasMin, seed) ==
    /\ openTime[p] # -1
    /\ LET isReplicator == roles[p] # NoRole /\ roles[p].factor > 0
       IN lastCover' =
            [ring |-> ring[p],
             start |-> CoverStartIndex(ring[p], p, isReplicator, seed),
             minReplicas |-> Min2(Len(ring[p]), replicasMin),
             time |-> now, roleAge |-> WAIT_FOR_ROLE_MATURITY,
             set |-> GetReplicatorUnion(ring[p], p, isReplicator, seed, replicasMin,
                                        now, WAIT_FOR_ROLE_MATURITY)]
    /\ UNCHANGED <<varsLog, varsLeaders, varsList, varsIndex, varsMessage, varsRoutes,
                   varsGate, varsPass, varsRole, varsStream, varsPrune, varsShared,
                   varsClose, fns, lastTraverse, lastCompare, lastSort, deleteHandlers, updaters, removed, lastPrune, queue, passHistory>>

\* log.traverse(rootEntries, amount) with entries of the log as roots
LogTraverse(l, roots, amount) ==
    /\ roots # {}
    /\ roots \subseteq logs[l].entries
    /\ lastTraverse' = [log |-> logs[l], roots |-> roots, amount |-> amount,
                        result |-> Traverse(logs[l], SetToSeq(roots), amount)]
    /\ UNCHANGED <<varsLog, varsLeaders, varsList, varsIndex, varsMessage, varsRoutes,
                   varsGate, varsPass, varsRole, varsStream, varsPrune, varsShared,
                   varsClose, fns, lastCover, lastCompare, lastSort, deleteHandlers, updaters, removed, lastPrune, queue, passHistory>>

\* the calls of privateUpdateNextHeadProperty and of delete, await by await:
\* every awaited operation of the index is one step.  `outsideUpdate' are
\* the variables these steps leave alone.
outsideUpdate == <<varsLog, varsLeaders, varsList, varsPass, varsMessage, varsRoutes,
                   varsGate, varsRole, varsStream, varsPrune, varsShared, varsClose, fns,
                   lastCover, lastTraverse, lastCompare, lastSort, lastPrune, queue, passHistory,
                   putCalls, lastDelete>>

\* for (const next of from.meta.next): the next reference the loop is at
NextOf(u) == CHOOSE n \in u.todo : \A m \in u.todo : n <= m

\* privateUpdateNextHeadProperty(from, isHead) is called by the put of
\* handler `id' or by the delete of hash `id'; a CUT returns at once
Updater(owner, id, from, isHead) ==
    [owner |-> owner, id |-> id, isHead |-> isHead,
     todo |-> IF from.type = "CUT" THEN {} ELSE from.next,
     read |-> NoShallow, pc |-> "get"]

\* fn after await this.properties.index.put: (no onGidRemoved is set)
\* privateUpdateNextHeadProperty(entry, false) is called
PutNextStart(h) ==
    /\ h \in putHandlers
    /\ h.pc = "next"
    /\ putHandlers' = (putHandlers \ {h}) \cup {[h EXCEPT !.pc = "updating"]}
    /\ updaters' = updaters \cup {Updater("put", h.id, h.entry, FALSE)}
    /\ UNCHANGED <<index, length, insertionPromises, putHistory, deleteHandlers,
                   removed, outsideUpdate>>

\* const indexedEntry = await this.properties.index.get(toId(next))
UpdateGet(u) ==
    /\ u \in updaters
    /\ u.pc = "get"
    /\ u.todo # {}
    /\ LET n == NextOf(u)
           found == {e \in index : e.hash = n}
       IN updaters' = (updaters \ {u}) \cup
            {IF found = {} THEN [u EXCEPT !.todo = @ \ {n}]
             ELSE [u EXCEPT !.read = CHOOSE e \in found : TRUE,
                            !.pc = IF u.isHead THEN "count" ELSE "put"]}
    /\ UNCHANGED <<index, length, insertionPromises, putHandlers, putHistory,
                   deleteHandlers, removed, outsideUpdate>>

\* const noPointersToNext = await this.countHasNext(next) === 0
UpdateCount(u) ==
    /\ u \in updaters
    /\ u.pc = "count"
    /\ updaters' = (updaters \ {u}) \cup
            {IF CountHasNext(index, NextOf(u)) = 0
             THEN [u EXCEPT !.pc = "put"]
             ELSE [u EXCEPT !.todo = @ \ {NextOf(u)}, !.read = NoShallow, !.pc = "get"]}
    /\ UNCHANGED <<index, length, insertionPromises, putHandlers, putHistory,
                   deleteHandlers, removed, outsideUpdate>>

\* indexedEntry.value.head = isHead; await this.properties.index.put(
\* indexedEntry.value): the value that was read is written
UpdatePut(u) ==
    /\ u \in updaters
    /\ u.pc = "put"
    /\ index' = IndexPut(index, [u.read EXCEPT !.head = u.isHead])
    /\ updaters' = (updaters \ {u}) \cup
            {[u EXCEPT !.todo = @ \ {NextOf(u)}, !.read = NoShallow, !.pc = "get"]}
    /\ UNCHANGED <<length, insertionPromises, putHandlers, putHistory,
                   deleteHandlers, removed, outsideUpdate>>

\* the loop has ended: the put deletes its insertion promise and completes,
\* the delete returns
UpdateDone(u) ==
    /\ u \in updaters
    /\ u.pc = "get"
    /\ u.todo = {}
    /\ updaters' = updaters \ {u}
    /\ IF u.owner = "put"
       THEN LET h == CHOOSE x \in putHandlers : x.id = u.id
            IN /\ putHandlers' = putHandlers \ {h}
               /\ insertionPromises' = insertionPromises \ {h.entry.hash}
               /\ putHistory' = [putHistory EXCEPT
                                    !.done = [@ EXCEPT ![h.entry.hash] = TRUE]]
               /\ UNCHANGED deleteHandlers
       ELSE /\ deleteHandlers' = {d \in deleteHandlers : d.hash # u.id}
            /\ UNCHANGED <<putHandlers, insertionPromises, putHistory>>
    /\ UNCHANGED <<index, length, removed, outsideUpdate>>

\* delete(k) is called: this.cache.del(k), then await this.getShallow(k)
DeleteCall(k) ==
    /\ \A d \in deleteHandlers : d.hash # k
    /\ deleteHandlers' = deleteHandlers \cup
            {[hash |-> k, shallow |-> NoShallow, deleted |-> 0, pc |-> "getShallow"]}
    /\ UNCHANGED <<index, length, insertionPromises, putHandlers, putHistory, updaters,
                   removed, outsideUpdate>>

\* let shallow = (await this.getShallow(k))?.value; if (!shallow) return
DeleteGet(d) ==
    /\ d \in deleteHandlers
    /\ d.pc = "getShallow"
    /\ LET found == {e \in index : e.hash = d.hash}
       IN deleteHandlers' =
            IF found = {} THEN deleteHandlers \ {d}
            ELSE (deleteHandlers \ {d}) \cup
                    {[d EXCEPT !.shallow = CHOOSE e \in found : TRUE, !.pc = "del"]}
    /\ UNCHANGED <<index, length, insertionPromises, putHandlers, putHistory, updaters,
                   removed, outsideUpdate>>

\* let deleted = await this.properties.index.del({ query: { hash: k } })
DeleteDel(d) ==
    /\ d \in deleteHandlers
    /\ d.pc = "del"
    /\ LET found == {e \in index : e.hash = d.hash}
       IN /\ index' = index \ found
          /\ deleteHandlers' = (deleteHandlers \ {d}) \cup
                {[d EXCEPT !.deleted = Cardinality(found), !.pc = "rm"]}
    /\ removed' = IF {e \in index : e.hash = d.hash} = {} THEN removed
                  ELSE removed \cup {d.hash}
    /\ UNCHANGED <<length, insertionPromises, putHandlers, putHistory, updaters,
                   outsideUpdate>>

\* await this.properties.store.rm(k); if (deleted.length > 0) the length is
\* lowered and privateUpdateNextHeadProperty(shallow, true) is called
DeleteRm(d) ==
    /\ d \in deleteHandlers
    /\ d.pc = "rm"
    /\ IF d.deleted > 0
       THEN /\ length' = length - d.deleted
            /\ deleteHandlers' = (deleteHandlers \ {d}) \cup {[d EXCEPT !.pc = "updating"]}
            /\ updaters' = updaters \cup {Updater("delete", d.hash, d.shallow, TRUE)}
       ELSE /\ deleteHandlers' = deleteHandlers \ {d}
            /\ UNCHANGED <<length, updaters>>
    /\ UNCHANGED <<index, insertionPromises, putHandlers, putHistory, removed, outsideUpdate>>


(***************************************************************************)
(* Part 11: the queue of distribution passes                               *)
(* (index.ts: onRoleChange, distribute, _distribute; _queue is a PQueue    *)
(*  of concurrency 1)                                                      *)
(***************************************************************************)
\* the changes of the ring of one peer
MaxChanges == 3

\* new PQueue({ concurrency: 1 })
Concurrency == 1

outsideQueue == <<varsLog, varsLeaders, varsList, varsIndex, varsPass, varsMessage,
                  varsRoutes, varsGate, varsRole, varsStream, varsPrune, varsShared,
                  varsClose, fns, lastCover, lastTraverse, lastCompare, lastSort,
                  deleteHandlers, updaters, removed, lastPrune>>

\* Mutant of QueueSize: the pass that runs is counted
QueueSize_WithPending(q) == q.size + q.pending

\* this._queue.size: the passes that wait; the pass that runs is not one of
\* them
QueueSize(q) == q.size

\* this._queue.add(() => this._distribute()): the pass starts at once when
\* fewer than `concurrency' passes run, and waits otherwise
QueueAdd(q) ==
    IF q.pending < Concurrency THEN [q EXCEPT !.pending = @ + 1]
    ELSE [q EXCEPT !.size = @ + 1]

\* distribute(): if (this._queue?.size > 0) return, else a pass is added
DistributeCall(q) == IF QueueSize(q) > 0 THEN q ELSE QueueAdd(q)

\* what a call of distribute() leaves in the history: a pass that starts
\* sees every change so far, a call that returns at once is a dropped one
DistributeHistory(q, h) ==
    IF QueueSize(q) > 0 THEN [h EXCEPT !.dropped = 1]
    ELSE IF q.pending < Concurrency THEN [h EXCEPT !.started = h.changes]
    ELSE h

\* the ring of p has changed (changed !== "none" in _updateRole or in
\* modifyReplicators) and onRoleChange(role, publicKey) is called:
\* this.distribute(), and for a Replicator the timer is set
RoleChange(p, isReplicator) ==
    /\ passHistory[p].changes < MaxChanges
    /\ LET h == [passHistory[p] EXCEPT !.changes = @ + 1]
       IN /\ passHistory' = [passHistory EXCEPT ![p] = DistributeHistory(queue[p], h)]
          /\ queue' = [queue EXCEPT ![p] =
                [DistributeCall(@) EXCEPT !.timers = IF isReplicator THEN @ + 1 ELSE @]]
    /\ UNCHANGED outsideQueue

\* the timer of onRoleChange fires: await rebalanceParticipationDebounced
\* (the role is fixed), this.distribute()
RoleTimer(p) ==
    /\ queue[p].timers > 0
    /\ passHistory' = [passHistory EXCEPT ![p] = DistributeHistory(queue[p], @)]
    /\ queue' = [queue EXCEPT ![p] = [DistributeCall(@) EXCEPT !.timers = @ - 1]]
    /\ UNCHANGED outsideQueue

\* the pass that runs returns; the queue starts the pass that waits
PassEnd(p) ==
    /\ queue[p].pending > 0
    /\ IF queue[p].size > 0
       THEN /\ queue' = [queue EXCEPT ![p].size = @ - 1]
            /\ passHistory' = [passHistory EXCEPT ![p].started = passHistory[p].changes]
       ELSE /\ queue' = [queue EXCEPT ![p].pending = @ - 1]
            /\ UNCHANGED passHistory
    /\ UNCHANGED outsideQueue

(***************************************************************************)
(* Actions of the Log model                                                *)
(***************************************************************************)
InitLogVars ==
    /\ blocks = {}
    /\ logs = [l \in Logs |-> EmptyLog]
    /\ joinFailed = FALSE
    /\ lastCut = NoCut

LogAppend(l, pointerCount) ==
    /\ Cardinality(blocks) < MaxEntries
    /\ LET entry == AppendEntry(logs[l], l, pointerCount)
       IN /\ blocks' = blocks \cup {entry}
          /\ logs' = [logs EXCEPT ![l] = AppendOp(logs[l], l, pointerCount)]
          /\ joinFailed' = FALSE
          /\ lastCut' = LET added == Appended(logs[l], l, pointerCount)
                        IN IF Recycles(added, l)
                           THEN [log |-> l, size |-> RecycleOf(l), before |-> added]
                           ELSE NoCut
          /\ UNCHANGED outsideLog

\* `bad': the entries for which Entry.verify or the access controller's
\* canAppend answers false during this call
LogJoin(l, m, size, bad) ==
    /\ l # m
    /\ logs' = [logs EXCEPT ![l] = Join(logs[l], logs[m], size, bad)]
    /\ joinFailed' = (Failing(logs[l], logs[m], bad) # {})
    /\ lastCut' = NoCut
    /\ UNCHANGED <<blocks, outsideLog>>

LogCutLog(l, size) ==
    /\ logs' = [logs EXCEPT ![l] = CutLogOp(logs[l], size)]
    /\ joinFailed' = FALSE
    /\ lastCut' = [log |-> l, size |-> size, before |-> logs[l]]
    /\ UNCHANGED <<blocks, outsideLog>>

(***************************************************************************)
(* Specifications                                                          *)
(***************************************************************************)
Init ==
    /\ InitLogVars
    /\ InitLeadersVars
    /\ InitRoleVars
    /\ InitStreamVars
    /\ InitCloseVars
    /\ InitIndexVars
    /\ InitPassVars
    /\ InitGateVars
    /\ InitMessageVars
    /\ InitRoutesVars
    /\ InitCallsVars
    /\ InitPruneVars
    /\ InitSharedVars

NextLog ==
    \/ \E l \in Logs, pc \in PointerCounts : LogAppend(l, pc)
    \/ \E l \in Logs, m \in Logs, size \in -1..MaxCut : LogJoin(l, m, size, {})
    \/ \E l \in Logs, size \in 0..MaxCut : LogCutLog(l, size)

SpecLog == Init /\ [][NextLog]_vars

\* the amounts traverse is called with: all (-1), none, and up to one more
\* than the log can hold
Amounts == -1..(MaxEntries + 1)

\* entries are appended, the logs are joined, and a log is traversed from
\* any of its entries
NextTraverse ==
    \/ \E l \in Logs, pc \in PointerCounts : LogAppend(l, pc)
    \/ \E l \in Logs, m \in Logs : LogJoin(l, m, -1, {})
    \/ \E l \in Logs, amount \in Amounts :
          \E roots \in SUBSET logs[l].entries : LogTraverse(l, roots, amount)

SpecTraverse == Init /\ [][NextTraverse]_vars

\* entries are compared and arrays of entries are sorted
NextCompare ==
    \/ \E a \in EntryPool, b \in EntryPool : CompareCall(a, b)
    \/ \E entries \in PoolArrays : SortCall(entries)

SpecCompare == Init /\ [][NextCompare]_vars

JoinSizes == {-1, 1}
BadSets == {{}} \cup {{e} : e \in blocks}

NextJoin ==
    \/ \E l \in Logs, pc \in PointerCounts : LogAppend(l, pc)
    \/ \E l \in Logs, m \in Logs, size \in JoinSizes, bad \in BadSets :
          LogJoin(l, m, size, bad)

SpecJoin == Init /\ [][NextJoin]_vars

NextLeaders ==
    \/ Tick
    \/ \E p \in Nodes : Open(p)
    \/ \E q \in Peers : SetRole(q)
    \/ \E p \in Nodes, q \in Peers : Modify(p, q)
    \/ \E p \in Nodes, g \in Gids, r \in 1..MaxReplicas : Evaluate(p, CursorOf(g), r)

SpecLeaders == Init /\ [][NextLeaders]_vars

\* node 1 has the log open, the peers become replicators with factors of
\* their choice, node 1 learns of them and asks for cover sets
NextCover ==
    \/ Tick
    \/ \E q \in Peers, factor \in CoverFactors : SetRoleOf(q, factor)
    \/ \E q \in Peers : Modify(1, q)
    \/ \E replicasMin \in 1..MaxReplicas, seed \in 0..Cardinality(Peers) :
          Cover(1, replicasMin, seed)

SpecCover == Init /\ [][NextCover]_vars

NextIndex ==
    \/ \E c \in IxContents, unique \in BOOLEAN, isHead \in BOOLEAN,
          toMultiHash \in BOOLEAN :
          \E preset \in PresetHashes(c) : PutCall(c, preset, unique, isHead, toMultiHash)
    \/ \E h \in putHandlers : PutHashed(h)
    \/ \E h \in putHandlers : PutHas(h)
    \/ \E h \in putHandlers : PutIndex(h)
    \/ \E h \in putHandlers : PutNext(h)
    \/ \E k \in IxHashes : IndexDelete(k)

SpecIndex == Init /\ [][NextIndex]_vars

\* the index holds the root entry, which was loaded and never put
InitOverlap ==
    /\ InitLogVars
    /\ InitLeadersVars
    /\ InitRoleVars
    /\ InitStreamVars
    /\ InitCloseVars
    /\ index = {ToShallow([hash |-> ToMultihash(RootEntry), payload |-> RootEntry.payload,
                            next |-> RootEntry.next, type |-> RootEntry.type],
                           TRUE, FALSE)}
    /\ length = 1
    /\ insertionPromises = {}
    /\ putHandlers = {}
    /\ putCalls = 0
    /\ putHistory = [adds |-> [k \in IxHashes |-> 0],
                     writes |-> [k \in IxHashes |-> 0],
                     called |-> [k \in IxHashes |-> FALSE],
                     done |-> [k \in IxHashes |-> FALSE],
                     sequential |-> [k \in IxHashes |-> FALSE]]
    /\ lastDelete = NoDelete
    /\ InitPassVars
    /\ InitGateVars
    /\ InitMessageVars
    /\ InitRoutesVars
    /\ InitCallsVars
    /\ InitPruneVars
    /\ InitSharedVars

\* puts with unique = false of entries that carry their hash, and deletes,
\* overlap, at most InFlightLimit calls at a time: every call goes on await
\* by await
NextOverlap ==
    \/ \E c \in IxContents :
          /\ Cardinality(putHandlers) + Cardinality(deleteHandlers) < InFlightLimit
          /\ PutCall(c, ToMultihash(c), FALSE, TRUE, FALSE)
    \/ \E h \in putHandlers : PutHas(h)
    \/ \E h \in putHandlers : PutIndex(h)
    \/ \E h \in putHandlers : PutNextStart(h)
    \/ \E u \in updaters : UpdateGet(u)
    \/ \E u \in updaters : UpdateCount(u)
    \/ \E u \in updaters : UpdatePut(u)
    \/ \E u \in updaters : UpdateDone(u)
    \/ \E k \in IxHashes :
          /\ Cardinality(putHandlers) + Cardinality(deleteHandlers) < InFlightLimit
          /\ DeleteCall(k)
    \/ \E d \in deleteHandlers : DeleteGet(d)
    \/ \E d \in deleteHandlers : DeleteDel(d)
    \/ \E d \in deleteHandlers : DeleteRm(d)

SpecOverlap == InitOverlap /\ [][NextOverlap]_vars


\* every peer has the log open as a replicator of the whole ring and knows
\* the others; no entry was appended yet
InitHeads ==
    /\ InitLogVars
    /\ now = MaxTime
    /\ openTime = [p \in Peers |-> 0]
    /\ roles = [q \in Peers |-> [factor |-> Width, timestamp |-> 0]]
    /\ ring = [p \in Peers |-> [q \in Peers |-> Rect(q, roles[q])]]
    /\ lastEval = NoEval
    /\ linked = EmptyList
    /\ InitRoleVars
    /\ InitStreamVars
    /\ InitCloseVars
    /\ InitIndexVars
    /\ InitPassVars
    /\ InitGateVars
    /\ InitMessageVars
    /\ InitRoutesVars
    /\ InitCallsVars
    /\ have = [p \in Peers |-> {}]
    /\ pendingDeletes = [p \in Peers |-> [h \in Hashes |-> 0]]
    /\ pruneRounds = [p \in Peers |-> [h \in Hashes |-> 0]]
    /\ pruneOutcome = [p \in Peers |-> [h \in Hashes |-> "none"]]
    /\ existCounter = [p \in Peers |-> [h \in Hashes |-> [r \in Rounds |-> {}]]]
    /\ pruneCalls = [p \in Peers |-> {}]
    /\ pendingIHave = [p \in Peers |-> {}]
    /\ pruneMsgs = {}
    /\ pruneHandlers = {}
    /\ confirmed = [p \in Peers |-> [h \in Hashes |-> {}]]
    /\ InitSharedVars

\* the peers append, one of them becomes an Observer, and every change of a
\* ring is followed by a distribution pass
NextHeads ==
    \/ \E p \in Peers, h \in Hashes : SharedAppend(p, h)
    \/ \E p \in Peers, h \in Hashes : SharedAppendSend(p, h)
    \/ \E m \in headMsgs : HeadsReceive(m)
    \/ \E p \in Pruners : SharedUpdateRole(p, 0)
    \/ \E m \in roleMsgs : SharedRoleReceive(m)
    \/ \E p \in Peers : Distribute(p)

SpecHeads == InitHeads /\ [][NextHeads]_vars

\* peers 1 and 3 have the log open as replicators of the whole ring and know
\* each other
InitPasses ==
    /\ InitLogVars
    /\ now = MaxTime
    /\ openTime = [p \in Peers |-> IF p \in Members THEN 0 ELSE -1]
    /\ roles = [q \in Peers |-> IF q \in Members THEN [factor |-> Width, timestamp |-> 0]
                                 ELSE NoRole]
    /\ ring = [p \in Peers |->
                IF p \in Members THEN <<Rect(1, roles[1]), Rect(3, roles[3])>> ELSE <<>>]
    /\ lastEval = NoEval
    /\ linked = EmptyList
    /\ InitRoleVars
    /\ InitStreamVars
    /\ InitCloseVars
    /\ InitIndexVars
    /\ InitPassVars
    /\ InitGateVars
    /\ InitMessageVars
    /\ InitRoutesVars
    /\ InitCallsVars
    /\ have = [p \in Peers |-> {}]
    /\ pendingDeletes = [p \in Peers |-> [h \in Hashes |-> 0]]
    /\ pruneRounds = [p \in Peers |-> [h \in Hashes |-> 0]]
    /\ pruneOutcome = [p \in Peers |-> [h \in Hashes |-> "none"]]
    /\ existCounter = [p \in Peers |-> [h \in Hashes |-> [r \in Rounds |-> {}]]]
    /\ pruneCalls = [p \in Peers |-> {}]
    /\ pendingIHave = [p \in Peers |-> {}]
    /\ pruneMsgs = {}
    /\ pruneHandlers = {}
    /\ confirmed = [p \in Peers |-> [h \in Hashes |-> {}]]
    /\ InitSharedVars

\* the peers append, peer 3 leaves the ring and comes back while no message
\* is in flight, and every change of a ring is followed by distribution
\* passes
NextPasses ==
    \/ \E p \in Members, h \in Hashes : SharedAppend(p, h)
    \/ \E p \in Members, h \in Hashes : SharedAppendSend(p, h)
    \/ \E m \in headMsgs : HeadsReceive(m)
    \/ /\ roleMsgs = {} /\ headMsgs = {} /\ unsent = {}
       /\ \E p \in Pruners, factor \in {0, Width} : SharedUpdateRole(p, factor)
    \/ \E m \in roleMsgs : SharedRoleReceive(m)
    \/ \E p \in Members : SharedTimer(p)
    \/ \E p \in Members : Distribute(p)

SpecPasses == InitPasses /\ [][NextPasses]_vars

\* the sets of keys the canReplicate function of peer 1 admits
Admitted == {{1}, {1, 2}}

\* the factors peer 2 gives its Replicator role
GateFactors == {0, Width \div 3, Width}

\* what the canReplicate function of peer p answers changes: the function is
\* the caller's, e.g. the membership of a trusted network
GateChange(p, admits) ==
    /\ canReplicate[p].set
    /\ canReplicate[p].admits # admits
    /\ canReplicate' = [canReplicate EXCEPT ![p] = [set |-> TRUE, admits |-> admits]]
    /\ UNCHANGED <<varsLog, varsLeaders, varsList, varsIndex, varsMessage, varsRoutes, varsCalls, varsPass, varsRole, varsStream,
                   varsPrune, varsShared, varsClose, fns, totalParticipation, gateLast>>

\* no peer has opened the log; peer 1 will open it with a canReplicate option
InitGate ==
    /\ InitLogVars
    /\ now = 0
    /\ openTime = [p \in Peers |-> -1]
    /\ roles = [q \in Peers |-> NoRole]
    /\ ring = [p \in Peers |-> <<>>]
    /\ lastEval = NoEval
    /\ linked = EmptyList
    /\ InitRoleVars
    /\ InitStreamVars
    /\ InitCloseVars
    /\ InitIndexVars
    /\ InitPassVars
    /\ \E admits \in Admitted :
          canReplicate = [p \in Peers |-> IF p = 1 THEN [set |-> TRUE, admits |-> admits]
                                         ELSE NoGate]
    /\ totalParticipation = [p \in Peers |-> 0]
    /\ gateLast = NoDecision
    /\ InitMessageVars
    /\ InitRoutesVars
    /\ InitCallsVars
    /\ InitPruneVars
    /\ InitSharedVars

\* peers 1 and 2 open the log, peer 2 changes its role, the roles travel, and the
\* answers of the admission gate of peer 1 change
NextGate ==
    \/ \E p \in Nodes : SharedOpen(p)
    \/ \E factor \in GateFactors : SharedUpdateRole(2, factor)
    \/ \E m \in roleMsgs : SharedRoleReceive(m)
    \/ \E admits \in Admitted : GateChange(1, admits)

SpecGate == InitGate /\ [][NextGate]_vars

\* a message is made, signed by up to two signers, verified, sent on, and
\* changed by relays while time passes
NextSign ==
    \/ Tick
    \/ \E variant \in {DATA_VARIANT, ACKNOWLEDGE_VARIANT}, expires \in Expiries,
          to \in ToLists, body \in Bodies, seenCounter \in Counters :
          MessageCreate(variant, 1, expires, to, body, seenCounter)
    \/ \E k \in Signers : MessageSign(k)
    \/ \E expectSignatures \in BOOLEAN : MessageVerifyCall(expectSignatures)
    \/ MessageFrom
    \/ \E to \in ToLists : RelayTo(to)
    \/ RelaySeen
    \/ \E body \in Bodies : Tamper(body)

SpecSign == Init /\ [][NextSign]_vars

\* streams are added, routes are added by hand and learned by seeks, and the
\* sender publishes
NextRoutes ==
    \/ \E e \in LaterEdges : Connect(e)
    \/ \E neighbour \in StreamNodes \ {Sender}, t \in Targets, distance \in Distances :
          RoutesAdd(neighbour, t, distance)
    \/ \E t \in Targets : StreamPublish(t)
    \/ \E t \in Targets : StreamSeek(t)

SpecRoutes == Init /\ [][NextRoutes]_vars

\* the factors and timestamps of the roles that reach the node
ListFactors == {0, Width \div 3, Width}
ListTimestamps == {0, TickStep}

NextList ==
    \E q \in Peers, factor \in ListFactors, timestamp \in ListTimestamps :
        ListModify(q, factor, timestamp)

SpecList == Init /\ [][NextList]_vars

NextRole ==
    \/ Tick
    \/ \E p \in Nodes : Open(p)
    \/ \E q \in Nodes : \E f \in RoleFactors(q) : UpdateRole(q, f)
    \/ \E m \in roleMsgs : RoleReceive(m)
    \/ \E p \in Nodes : \E h \in roleHandlers[p] : RoleThen(p, h)
    \/ \E p \in Nodes : \E h \in roleHandlers[p] : RoleOnline(p, h)
    \/ \E p \in Nodes : \E h \in roleHandlers[p] : RoleOffline(p, h)
    \/ \E p \in Nodes : \E h \in roleHandlers[p] : RoleInsert(p, h)
    \/ \E p \in Nodes, q \in Nodes : RoleUnsubscribe(p, q)

SpecRole == Init /\ [][NextRole]_vars

NextStream ==
    \/ \E p \in Publishers, i \in MsgIds : \E out \in SUBSET seenCache[p] : Publish(p, i, out)
    \/ \E c \in wire : ReceiveSeen(c)
    \/ \E c \in wire : \E out \in SUBSET seenCache[c.dst] : ReceiveNew(c, out)

SpecStream == Init /\ [][NextStream]_vars

\* Three replicators have opened the log and hold every entry.  Peers 1 and
\* 2 know of every peer; the pruning peer has only its own range on its ring
\* and learns of the others while it prunes.
InitPrune ==
    /\ InitLogVars
    /\ now = 0
    /\ openTime = [p \in Peers |-> 0]
    /\ roles = [q \in Peers |-> [factor |-> FactorOf(q), timestamp |-> 0]]
    /\ ring = [p \in Peers |->
                    IF p \in Pruners THEN <<Rect(p, roles[p])>>
                    ELSE [q \in Peers |-> Rect(q, roles[q])]]
    /\ lastEval = NoEval
    /\ linked = EmptyList
    /\ InitRoleVars
    /\ InitStreamVars
    /\ InitCloseVars
    /\ InitIndexVars
    /\ InitPassVars
    /\ InitGateVars
    /\ InitMessageVars
    /\ InitRoutesVars
    /\ InitCallsVars
    /\ InitPruneVars
    /\ InitSharedVars

NextPrune ==
    \/ Tick
    \/ \E p \in Peers : \E q \in Peers \ {p} : OnRoleChange(p, q)
    \/ \E p \in Pruners : Prune(p, have[p])
    \/ \E p \in Peers, h \in Hashes : PruneTimeout(p, h)
    \/ \E m \in pruneMsgs : RequestIPruneReceive(m)
    \/ \E m \in pruneMsgs : ResponseIPruneReceive(m)
    \/ \E x \in pruneHandlers : PruneResolve(x)

SpecPrune == InitPrune /\ [][NextPrune]_vars

\* the pruning peer calls prune with any entries of its log, also with
\* entries of which the deletion is pending
NextAwait ==
    \/ \E p \in Pruners : \E entries \in SUBSET have[p] : PruneAndAwait(p, entries)
    \/ \E p \in Peers, h \in Hashes : PruneTimeout(p, h)
    \/ \E m \in pruneMsgs : RequestIPruneReceive(m)
    \/ \E m \in pruneMsgs : ResponseIPruneReceive(m)
    \/ \E x \in pruneHandlers : PruneResolve(x)

SpecAwait == InitPrune /\ [][NextAwait]_vars

\* the rings of the peers that have the log open change, their timers fire
\* and their passes end
NextQueue ==
    \/ \E p \in Members, isReplicator \in BOOLEAN : RoleChange(p, isReplicator)
    \/ \E p \in Members : RoleTimer(p)
    \/ \E p \in Members : PassEnd(p)

SpecQueue == InitPrune /\ [][NextQueue]_vars

\* a pass that runs returns: it waits for its own log and index only
SpecQueueFair ==
    /\ SpecQueue
    /\ \A p \in Members : WF_vars(PassEnd(p))

\* the peers that close their log
Closers == {2, 3}

\* checked pruning on logs that are closed.  A closed log has no callers and
\* its rpc delivers no message to it; the handlers that were suspended when
\* it was closed resume, and pubsub calls the handlers that are registered.
NextClose ==
    \/ \E p \in Pruners, h \in Hashes : ~closed[p] /\ Prune(p, {h})
    \/ \E p \in Peers, h \in Hashes : PruneTimeout(p, h)
    \/ \E m \in pruneMsgs : ~closed[m.to] /\ RequestIPruneReceive(m)
    \/ \E m \in pruneMsgs : ~closed[m.to] /\ RequestIPruneSuspend(m)
    \/ \E m \in requestHandlers : RequestIPruneResume(m)
    \/ \E q \in Peers : \E x \in pendingIHave[q] : IHaveTimeout(q, x)
    \/ \E m \in pruneMsgs : ~closed[m.to] /\ ResponseIPruneReceive(m)
    \/ \E x \in pruneHandlers : PruneResolve(x)
    \/ \E p \in Closers : SharedClose(p)
    \/ \E p \in Closers, q \in Pruners :
            /\ \E fn \in 1..fns[p].bound : <<"unsubscribe", fn>> \in fns[p].registered
            /\ RoleUnsubscribe(p, q)

SpecClose == InitPrune /\ [][NextClose]_vars

\* messages are delivered and handled
SpecPruneFair ==
    /\ SpecPrune
    /\ WF_vars(\E m \in pruneMsgs : RequestIPruneReceive(m))
    /\ WF_vars(\E m \in pruneMsgs : ResponseIPruneReceive(m))
    /\ WF_vars(\E x \in pruneHandlers : PruneResolve(x))

NextShared ==
    \/ \E p \in Members : SharedOpen(p)
    \/ \E p \in Members, h \in Hashes : SharedAppend(p, h)
    \/ \E p \in Members, h \in Hashes : SharedAppendSend(p, h)
    \/ \E m \in roleMsgs : SharedRoleReceive(m)
    \/ \E p \in Members : SharedTimer(p)
    \/ \E m \in headMsgs : HeadsReceive(m)
    \/ \E p \in Members : Distribute(p)

\* no peer has opened the log
InitShared ==
    /\ InitLogVars
    /\ now = 0
    /\ openTime = [p \in Peers |-> -1]
    /\ roles = [q \in Peers |-> NoRole]
    /\ ring = [p \in Peers |-> <<>>]
    /\ lastEval = NoEval
    /\ linked = EmptyList
    /\ InitRoleVars
    /\ InitStreamVars
    /\ InitCloseVars
    /\ InitIndexVars
    /\ InitPassVars
    /\ InitGateVars
    /\ InitMessageVars
    /\ InitRoutesVars
    /\ InitCallsVars
    /\ have = [p \in Peers |-> {}]
    /\ pendingDeletes = [p \in Peers |-> [h \in Hashes |-> 0]]
    /\ pruneRounds = [p \in Peers |-> [h \in Hashes |-> 0]]
    /\ pruneOutcome = [p \in Peers |-> [h \in Hashes |-> "none"]]
    /\ existCounter = [p \in Peers |-> [h \in Hashes |-> [r \in Rounds |-> {}]]]
    /\ pruneCalls = [p \in Peers |-> {}]
    /\ pendingIHave = [p \in Peers |-> {}]
    /\ pruneMsgs = {}
    /\ pruneHandlers = {}
    /\ confirmed = [p \in Peers |-> [h \in Hashes |-> {}]]
    /\ InitSharedVars

SpecShared == InitShared /\ [][NextShared]_vars

\* messages are delivered and handled, queued and timed work is run, and an
\* append that has started sends its entry
SpecSharedFair ==
    /\ SpecShared
    /\ WF_vars(\E m \in roleMsgs : SharedRoleReceive(m))
    /\ WF_vars(\E m \in headMsgs : HeadsReceive(m))
    /\ WF_vars(\E p \in Members, h \in Hashes : SharedAppendSend(p, h))
    /\ WF_vars(\E p \in Members : SharedTimer(p))
    /\ WF_vars(\E p \in Members : Distribute(p))

\* three Replicators of factor 1 hold an entry that peer 1 or peer 2 has
\* appended; every ring is complete
InitObserve ==
    /\ InitLogVars
    /\ now \in {0, MaxTime}
    /\ openTime = [p \in Peers |-> 0]
    /\ roles = [q \in Peers |-> [factor |-> Width, timestamp |-> 0]]
    /\ ring = [p \in Peers |-> [q \in Peers |-> Rect(q, roles[q])]]
    /\ lastEval = NoEval
    /\ linked = EmptyList
    /\ InitRoleVars
    /\ InitStreamVars
    /\ InitCloseVars
    /\ InitIndexVars
    /\ InitPassVars
    /\ InitGateVars
    /\ InitMessageVars
    /\ InitRoutesVars
    /\ InitCallsVars
    /\ have = [p \in Peers |-> {1}]
    /\ pendingDeletes = [p \in Peers |-> [h \in Hashes |-> 0]]
    /\ pruneRounds = [p \in Peers |-> [h \in Hashes |-> 0]]
    /\ pruneOutcome = [p \in Peers |-> [h \in Hashes |-> "none"]]
    /\ existCounter = [p \in Peers |-> [h \in Hashes |-> [r \in Rounds |-> {}]]]
    /\ pruneCalls = [p \in Peers |-> {}]
    /\ pendingIHave = [p \in Peers |-> {}]
    /\ pruneMsgs = {}
    /\ pruneHandlers = {}
    /\ confirmed = [p \in Peers |-> [h \in Hashes |-> {}]]
    /\ \E c \in Peers \ Pruners :
          /\ creator = [h \in Hashes |-> IF h = 1 THEN c ELSE 0]
          /\ gidPeersHistory = [p \in Peers |-> IF p = c THEN {} ELSE {c}]
    /\ entryNext = [h \in Hashes |-> {}]
    /\ unsent = {}
    /\ headMsgs = {}
    /\ distributeQueued = [p \in Peers |-> FALSE]
    /\ distributeTimer = [p \in Peers |-> FALSE]

\* one of the peers becomes an Observer.  The timeout of a checked prune
\* (10 seconds) is taken to be longer than the delivery of its messages.
NextObserve ==
    \/ \E p \in Pruners : SharedUpdateRole(p, 0)
    \/ \E m \in roleMsgs : SharedRoleReceive(m)
    \/ \E p \in Peers : Distribute(p)
    \/ \E m \in headMsgs : HeadsReceive(m)
    \/ \E m \in pruneMsgs : RequestIPruneReceive(m)
    \/ \E m \in pruneMsgs : ResponseIPruneReceive(m)
    \/ \E x \in pruneHandlers : PruneResolve(x)

SpecObserve == InitObserve /\ [][NextObserve]_vars

\* messages are delivered and handled, and queued work is run
SpecObserveFair ==
    /\ SpecObserve
    /\ WF_vars(\E m \in roleMsgs : SharedRoleReceive(m))
    /\ WF_vars(\E p \in Peers : Distribute(p))
    /\ WF_vars(\E m \in headMsgs : HeadsReceive(m))
    /\ WF_vars(\E m \in pruneMsgs : RequestIPruneReceive(m))
    /\ WF_vars(\E m \in pruneMsgs : ResponseIPruneReceive(m))
    /\ WF_vars(\E x \in pruneHandlers : PruneResolve(x))

\* the peers of the narrow ranges hold an entry of one minimum replica, the
\* peer of the full range has come to their rings and does not hold it yet;
\* the role change has queued a _distribute on both holders
InitIHave ==
    /\ InitLogVars
    /\ now = MaxTime
    /\ openTime = [p \in Peers |-> 0]
    /\ roles = [q \in Peers |-> [factor |-> FactorOf(q), timestamp |-> 0]]
    /\ ring = [p \in Peers |-> [q \in Peers |-> Rect(q, roles[q])]]
    /\ lastEval = NoEval
    /\ linked = EmptyList
    /\ InitRoleVars
    /\ InitStreamVars
    /\ InitCloseVars
    /\ InitIndexVars
    /\ InitPassVars
    /\ InitGateVars
    /\ InitMessageVars
    /\ InitRoutesVars
    /\ InitCallsVars
    /\ have = [p \in Peers |-> IF p = 1 THEN {} ELSE {1}]
    /\ pendingDeletes = [p \in Peers |-> [h \in Hashes |-> 0]]
    /\ pruneRounds = [p \in Peers |-> [h \in Hashes |-> 0]]
    /\ pruneOutcome = [p \in Peers |-> [h \in Hashes |-> "none"]]
    /\ existCounter = [p \in Peers |-> [h \in Hashes |-> [r \in Rounds |-> {}]]]
    /\ pruneCalls = [p \in Peers |-> {}]
    /\ pendingIHave = [p \in Peers |-> {}]
    /\ pruneMsgs = {}
    /\ pruneHandlers = {}
    /\ confirmed = [p \in Peers |-> [h \in Hashes |-> {}]]
    /\ creator = [h \in Hashes |-> 0]
    /\ entryNext = [h \in Hashes |-> {}]
    /\ unsent = {}
    /\ headMsgs = {}
    /\ gidPeersHistory = [p \in Peers |-> {}]
    /\ distributeQueued = [p \in Peers |-> p # 1]
    /\ distributeTimer = [p \in Peers |-> FALSE]

NextIHave ==
    \/ \E p \in Peers : Distribute(p)
    \/ \E m \in headMsgs : HeadsReceive(m)
    \/ \E m \in pruneMsgs : RequestIPruneReceive(m)
    \/ \E q \in Peers : \E x \in pendingIHave[q] : IHaveTimeout(q, x)
    \/ \E m \in pruneMsgs : ResponseIPruneReceive(m)
    \/ \E x \in pruneHandlers : PruneResolve(x)
    \/ \E p \in Peers, h \in Hashes : PruneTimeout(p, h)

SpecIHave == InitIHave /\ [][NextIHave]_vars

\* the peers that have opened the log and hold the replicated entry
Holders == 1..2

\* the entry of one minimum replica that every holder has joined
Replicated == {h \in Hashes : h <= 1}

\* the peers that change their role: the Replicator of the full range
Leavers == {p \in Holders : FactorOf(p) = Width}

\* two Replicators have opened the log one maturity time ago, know of each
\* other and hold the entry; the role changes have queued a _distribute
InitStored ==
    /\ InitLogVars
    /\ now = TickStep
    /\ openTime = [p \in Peers |-> IF p \in Holders THEN 0 ELSE -1]
    /\ roles = [q \in Peers |-> IF q \in Holders THEN [factor |-> FactorOf(q), timestamp |-> 0]
                            ELSE NoRole]
    /\ ring = [p \in Peers |-> IF p \in Holders THEN [q \in Holders |-> Rect(q, roles[q])]
                           ELSE <<>>]
    /\ lastEval = NoEval
    /\ linked = EmptyList
    /\ InitRoleVars
    /\ InitStreamVars
    /\ InitCloseVars
    /\ InitIndexVars
    /\ InitPassVars
    /\ InitGateVars
    /\ InitMessageVars
    /\ InitRoutesVars
    /\ InitCallsVars
    /\ have = [p \in Peers |-> IF p \in Holders THEN Replicated ELSE {}]
    /\ pendingDeletes = [p \in Peers |-> [h \in Hashes |-> 0]]
    /\ pruneRounds = [p \in Peers |-> [h \in Hashes |-> 0]]
    /\ pruneOutcome = [p \in Peers |-> [h \in Hashes |-> "none"]]
    /\ existCounter = [p \in Peers |-> [h \in Hashes |-> [r \in Rounds |-> {}]]]
    /\ pruneCalls = [p \in Peers |-> {}]
    /\ pendingIHave = [p \in Peers |-> {}]
    /\ pruneMsgs = {}
    /\ pruneHandlers = {}
    /\ confirmed = [p \in Peers |-> [h \in Hashes |-> {}]]
    /\ creator = [h \in Hashes |-> 0]
    /\ entryNext = [h \in Hashes |-> {}]
    /\ unsent = {}
    /\ headMsgs = {}
    /\ gidPeersHistory = [p \in Peers |-> {}]
    /\ distributeQueued = [p \in Peers |-> p \in Holders]
    /\ distributeTimer = [p \in Peers |-> FALSE]

\* a peer of the full range becomes an Observer when its role is older than
\* the clock, and a Replicator again before the last tick; role messages,
\* heads and the messages of the checked prunes are delivered in any order
NextStored ==
    \/ Tick
    \/ \E p \in Leavers : \E f \in {0, FactorOf(p)} :
          /\ IF f = 0 THEN roles[p].timestamp < now ELSE now < MaxTime
          /\ SharedUpdateRole(p, f)
    \/ \E m \in roleMsgs : SharedRoleReceive(m)
    \/ \E p \in Holders : Distribute(p)
    \/ \E m \in headMsgs : HeadsReceive(m)
    \/ \E m \in pruneMsgs : RequestIPruneReceive(m)
    \/ \E m \in pruneMsgs : ResponseIPruneReceive(m)
    \/ \E x \in pruneHandlers : PruneResolve(x)

SpecStored == InitStored /\ [][NextStored]_vars

(***************************************************************************)
(* Claims on the Log                                                       *)
(***************************************************************************)
HeadsExact(log) == log.heads = {e \in log.entries : \A o \in log.entries : e \notin o.next}

\* C1: after any sequence of append, join and cutLog, the heads index holds
\* exactly the entries of the log that no other entry of the log lists in next.
C1_HeadsAreUnreferenced == \A l \in Logs : HeadsExact(logs[l])

\* what C2 compares of a log: entry set, heads, length and clock time
JoinView(log) ==
    [entries |-> log.entries, heads |-> log.heads,
     length |-> log.length, time |-> log.time]

JoinCommutes(L, A, B) ==
    JoinView(JoinOp(JoinOp(L, A, -1), B, -1)) = JoinView(JoinOp(JoinOp(L, B, -1), A, -1))

JoinIdempotent(L, A) ==
    JoinView(JoinOp(JoinOp(L, A, -1), A, -1)) = JoinView(JoinOp(L, A, -1))

\* a log that holds every entry its entries list in next (it was never cut)
AncestorClosed(log) == \A e \in log.entries : e.next \subseteq log.entries

\* the logs a join can meet: the Log instances and a newly constructed Log
AnyLog == {logs[l] : l \in Logs} \cup {EmptyLog}

\* C2 as claimed: for all logs L, A, B, join without a size limit is
\* commutative (L.join(A).join(B) and L.join(B).join(A) agree on entries, heads,
\* length and clock) and idempotent (L.join(A).join(A) agrees with L.join(A)).
C2_JoinCommutativeIdempotent ==
    \A L \in AnyLog, A \in AnyLog, B \in AnyLog :
        JoinCommutes(L, A, B) /\ JoinIdempotent(L, A)

\* Lemma for C2: join without a size limit is idempotent for all logs, and
\* commutative for logs L, A, B that each hold every entry their entries
\* list in next.
C2_JoinCommutativeOnClosedLogs ==
    \A L \in AnyLog, A \in AnyLog, B \in AnyLog :
        /\ JoinIdempotent(L, A)
        /\ (AncestorClosed(L) /\ AncestorClosed(A) /\ AncestorClosed(B))
              => JoinCommutes(L, A, B)

\* C9: every entry of a log has a clock time strictly greater than the clock
\* time of every entry of the log that it lists in next.
C9_ChildClockGreater ==
    \A l \in Logs : \A e \in logs[l].entries : \A p \in e.next :
        p \in logs[l].entries => e.time > p.time

\* a log holds an entry it appended on top of an entry it joined from another log
C9_Witness ==
    \E l \in Logs : \E e \in logs[l].entries :
        /\ e.id = Identity(l)
        /\ \E p \in e.next : p \in logs[l].entries /\ p.id # Identity(l)

(***************************************************************************)
(* Claims on leader selection                                              *)
(***************************************************************************)
\* the replicators of a ring that an evaluation at `time' with `roleAge' sees
\* as matured
MaturedKeys(peers, time, roleAge) ==
    {peers[i].publicKey : i \in {j \in 1..Len(peers) : IsMatured(peers[j], time, roleAge)}}

RingKeys(peers) == {peers[i].publicKey : i \in 1..Len(peers)}

C7_ExactlyMinReplicasLeaders ==
    (lastEval # NoEval /\ Len(lastEval.ring) >= 1) =>
        Cardinality(lastEval.leaders) = Min2(lastEval.replicas, Len(lastEval.ring))

\* C7 amended: on a ring of n >= 1 replicators and for r >= 1, leader
\* selection returns at least one and at most n distinct peers, every one of
\* them a replicator of the ring.
C7_BetweenOneAndRingSize ==
    (lastEval # NoEval /\ Len(lastEval.ring) >= 1) =>
        /\ Cardinality(lastEval.leaders) >= 1
        /\ Cardinality(lastEval.leaders) <= Len(lastEval.ring)
        /\ lastEval.leaders \subseteq RingKeys(lastEval.ring)

\* an evaluation with r = 2 on a ring of two replicators or more returned a
\* single leader: one replicator covers both probed points
C7_Witness ==
    /\ lastEval # NoEval
    /\ lastEval.replicas >= 2
    /\ Len(lastEval.ring) >= 2
    /\ Cardinality(lastEval.leaders) = 1
    /\ lastEval.leaders \subseteq RingKeys(lastEval.ring)

(***************************************************************************)
(* Claims on role messages                                                 *)
(***************************************************************************)
\* C5: for every node p and remote peer q, an older role message never
\* changes the ring after a newer one was seen: whenever p has no handler of
\* a role message of q in progress, the range the ring of p stores for q is
\* the one carried by the newest-timestamped role message of q processed so
\* far (no range if that role is an Observer).
C5_RingHoldsNewestRole ==
    \A p \in Nodes, q \in Peers :
        (/\ q # p
         /\ q \notin unsubscribed[p]
         /\ latestRoleMessages[p][q] # NoTimestamp
         /\ \A h \in roleHandlers[p] : h.msg.from # q)
            => RingRole(ring[p], q)
                 = IF seenRole[p][q].factor > 0 THEN seenRole[p][q] ELSE NoRole

Retains(p, i) == \E x \in seenCache[p] : x.id = i

FullReplicators == {q \in Peers : RoleOption(q) = Width}

\* the observers
Observers == {q \in Peers : RoleOption(q) = 0}

C10_ObserverHoldsOwnEntriesOnly ==
    \A b \in Observers : \A h \in have[b] : creator[h] = b

\* a replicator holds its own entry and the entry of the observer, and the
\* observer holds only its own
C10_Witness ==
    \E a \in Peers \ Observers, b \in Observers :
        /\ \E h \in have[a] : creator[h] = a
        /\ \E h \in have[a] : creator[h] = b
        /\ \E h \in Hashes : creator[h] = a /\ h \notin have[b]
        /\ have[b] # {}

(***************************************************************************)
(* C11: Log.join is all-or-nothing                                         *)
(***************************************************************************)
\* Original statement of C11: a join of which an entry fails the signature
\* or the permission check leaves the entry index, next index, heads, length
\* and clock as they were, and any other join adds every new entry of the
\* batch.
C11_Original ==
    [][/\ joinFailed' => logs' = logs
       /\ \A l, m \in Logs, size \in JoinSizes :
             (~joinFailed' /\ LogJoin(l, m, size, {})) =>
                 SeqToSet(Difference(logs[m], logs[l])) \subseteq logs'[l].entries]_vars

\* C11 (amended): a join of which an entry fails the signature or the
\* permission check leaves entry index, next index, heads, length and clock
\* exactly as they were; a join without a size limit of which no entry fails
\* adds every new entry of the batch, and counts each of them once.
C11_JoinAllOrNothing ==
    [][/\ joinFailed' => logs' = logs
       /\ \A l, m \in Logs :
             (~joinFailed' /\ LogJoin(l, m, -1, {})) =>
                 LET batch == SeqToSet(Difference(logs[m], logs[l]))
                 IN /\ logs'[l].entries = logs[l].entries \cup batch
                    /\ logs'[l].length = logs[l].length + Cardinality(batch)]_vars

\* a join has just thrown on a batch of two entries or more, into a log
\* that is not empty
C11_Witness ==
    /\ joinFailed
    /\ \E l, m \in Logs :
          /\ logs[l].entries # {}
          /\ Len(Difference(logs[m], logs[l])) >= 2

C13_RejectedPruneKeepsEntry ==
    \A p \in Peers, h \in Hashes :
        pruneOutcome[p][h] \in {"is leader", "is leader again"} => h \in have[p]

OlderThanRoleAge(peers, time, roleAge) ==
    {peers[i].publicKey : i \in {j \in 1..Len(peers) : time - peers[j].timestamp > roleAge}}

\* the points findLeadersFromUniformNumber probes in the latest evaluation
ProbedPoints ==
    LET n == Min2(lastEval.replicas, Len(lastEval.ring))
    IN {(lastEval.cursor + (i * Width) \div n) % Width : i \in 0..(n - 1)}

\* C16 as claimed: the leader set returned for a replica count r contains at
\* least min(r, m) mature replicators, where m is the number of replicators
\* in the ring whose role timestamp is older than the role age.
C16_Original ==
    lastEval # NoEval =>
        LET mature == OlderThanRoleAge(lastEval.ring, lastEval.time, lastEval.roleAge)
        IN Cardinality(lastEval.leaders \cap mature)
                >= Min2(lastEval.replicas, Cardinality(mature))

\* C16 amended: the leader set returned for a replica count r contains at
\* least min(1, m) mature replicators, where m is the number of replicators
\* in the ring whose role timestamp is older than the role age; immature
\* replicators never take the place of available mature ones: whenever m >= 1,
\* what is collected around every probed point includes a mature replicator.
C16_MatureLeaderAtEveryPoint ==
    lastEval # NoEval =>
        LET mature == OlderThanRoleAge(lastEval.ring, lastEval.time, lastEval.roleAge)
        IN /\ Cardinality(lastEval.leaders \cap mature) >= Min2(1, Cardinality(mature))
           /\ mature # {} =>
                \A point \in ProbedPoints :
                    /\ CollectNodesAroundPoint(lastEval.time, lastEval.roleAge,
                                               lastEval.ring, point) \cap mature # {}
                    /\ CollectNodesAroundPoint(lastEval.time, lastEval.roleAge,
                                               lastEval.ring, point) \subseteq lastEval.leaders

\* an evaluation on a ring with a mature replicator where no mature
\* replicator covers the probed point: the leaders are an immature
\* replicator and a mature one
C16_Witness ==
    /\ lastEval # NoEval
    /\ LET mature == OlderThanRoleAge(lastEval.ring, lastEval.time, lastEval.roleAge)
       IN /\ mature # {}
          /\ lastEval.leaders \ mature # {}
          /\ lastEval.leaders \cap mature # {}
          /\ \E point \in ProbedPoints :
                \A i \in 1..Len(lastEval.ring) :
                    Covers(lastEval.ring[i], point)
                        => lastEval.ring[i].publicKey \notin mature

(***************************************************************************)
(* Claims on the structure of the ring                                     *)
(***************************************************************************)
\* the nodes of the list from its head
LinkedIds == FollowNext(linked, linked.head, Cardinality(NodeIds))

\* C17: after any sequence of replicator insertions, updates and removals,
\* the ring is sorted by ascending offset, contains at most one range per
\* public key, and its head, tail and length agree with the linked nodes.
C17_RingSortedUniqueLinked ==
    LET ids == LinkedIds
        n == Len(ids)
    IN /\ \A i, j \in 1..n :
            i < j => linked.nodes[ids[i]].value.offset <= linked.nodes[ids[j]].value.offset
       /\ \A i, j \in 1..n :
            i # j => linked.nodes[ids[i]].value.publicKey # linked.nodes[ids[j]].value.publicKey
       /\ linked.length = n
       /\ linked.head = (IF n = 0 THEN NoNode ELSE ids[1])
       /\ linked.tail = (IF n = 0 THEN NoNode ELSE ids[n])
       /\ \A i \in 1..n :
            /\ linked.nodes[ids[i]].list
            /\ linked.nodes[ids[i]].prev = (IF i = 1 THEN NoNode ELSE ids[i - 1])
            /\ linked.nodes[ids[i]].next = (IF i = n THEN NoNode ELSE ids[i + 1])
       /\ \A id \in NodeIds : linked.nodes[id].list => \E i \in 1..n : ids[i] = id

\* a ring of three ranges whose nodes were not created in the order of their
\* offsets: the last created node is neither the head nor the tail
C17_Witness ==
    /\ linked.length = 3
    /\ \E id \in NodeIds :
        /\ linked.nodes[id].list
        /\ id # linked.head /\ id # linked.tail
        /\ linked.nodes[linked.head].list /\ linked.nodes[linked.tail].list
        /\ id > linked.head /\ id > linked.tail
        /\ linked.nodes[linked.head].next = id /\ linked.nodes[linked.tail].prev = id

(***************************************************************************)
(* Claims on unsubscription                                                *)
(***************************************************************************)
\* C18: once the unsubscription event of a peer has been handled by a node
\* and the peer sends no further role message, the peer is absent from the
\* ring of the node in every later state, also when a role message it sent
\* before unsubscribing is still being handled at that moment.
C18_UnsubscribedPeerAbsent ==
    \A p \in Nodes, q \in Peers :
        q \in unsubscribed[p] => RingRole(ring[p], q) = NoRole

(***************************************************************************)
(* Claims on close                                                         *)
(***************************************************************************)
\* C19: when the log is closed, every prune promise still pending is
\* resolved (never rejected), and after close the pending-delete map and the
\* pending-IHave map are empty, no pending-IHave timer is armed and the ring
\* is cleared.
C19_ClosedLogHoldsNothingPending ==
    \A p \in Peers :
        closed[p] =>
            /\ \A h \in Hashes :
                /\ pendingDeletes[p][h] = 0
                /\ pruneRounds[p][h] > 0 => pruneOutcome[p][h] # "none"
            /\ pendingIHave[p] = {}
            /\ ring[p] = <<>>

\* C20: after close, neither the subscribe handler nor the unsubscribe
\* handler that the log registered on pubsub at open remains registered, so
\* later subscription and unsubscription events no longer invoke the handlers
\* of the closed log.
C20_ClosedLogHasNoListeners ==
    \A p \in Peers : closed[p] => fns[p].registered = {}

(***************************************************************************)
(* Claims on the entry index                                               *)
(***************************************************************************)
\* C21: while a put of an entry with hash h is in flight, every further put
\* of the same hash returns the same promise and performs no second index
\* write, so any number of concurrent puts of one new entry raise the index
\* length by exactly 1.
C21_ConcurrentPutsCountOnce ==
    \A k \in IxHashes :
        ~putHistory.sequential[k] =>
            /\ putHistory.writes[k] <= 1
            /\ putHistory.adds[k] <= 1
            /\ (putHistory.called[k] /\ ~InFlight(k)) => putHistory.adds[k] = 1

\* C22: EntryIndex.put called with hash recomputation enabled rejects,
\* leaving the index unchanged, every entry whose preset hash differs from
\* the hash computed from its contents, so every entry indexed by such a put
\* has the hash of its contents.
C22_RecomputedHashMatches ==
    \A e \in index : e.recomputed => ToMultihash(e) = e.hash

\* C23: when EntryIndex.delete removes an entry, each still-indexed entry in
\* the removed entry's next set is flagged as a head if and only if no
\* remaining indexed entry lists it in its next set.
C23_DeletePromotesUnreferenced ==
    lastDelete # NoDelete =>
        \A e \in index :
            e.hash \in lastDelete.removed.next =>
                (e.head <=> CountHasNext(index, e.hash) = 0)

(***************************************************************************)
(* Claims on cutLog                                                        *)
(***************************************************************************)
\* the n newest entries of a set in sort order (Entry.compare)
Newest(S, n) == SeqToSet(SubSeq(SortAsc(SetToSeq(S)), Cardinality(S) - n + 1,
                                Cardinality(S)))

\* C24: for every size >= 0, including 0 and sizes larger than the log,
\* cutLog(size) leaves the log with exactly min(size, previous length)
\* entries, namely the newest ones in sort order, and with length equal to
\* that number.
C24_CutLeavesNewest ==
    lastCut # NoCut =>
        LET after == logs[lastCut.log]
            n == Min2(lastCut.size, lastCut.before.length)
        IN /\ Cardinality(after.entries) = n
           /\ after.entries = Newest(lastCut.before.entries, n)
           /\ after.length = n

(***************************************************************************)
(* Claims on the dissemination of heads                                    *)
(***************************************************************************)
\* C25: after a local append, the new entry is sent in an ExchangeHeads
\* message addressed to the leaders computed for its gid, with redundancy 1,
\* using Silent delivery if and only if the local peer is in that leader set
\* and Acknowledged delivery otherwise.
C25_AppendSendsToLeaders ==
    [][\A p \in Peers, h \in Hashes :
          (<<p, h>> \in unsent /\ <<p, h>> \notin unsent') =>
              LET leaders == FindLeaders(p, CursorOf(GidOf(h)), EntryReplicas(h), now)
                  type == IF p \in leaders THEN "SilentDelivery"
                          ELSE "AcknowledgeDelivery"
              IN \A q \in Peers :
                    q \in leaders \ {p} <=>
                        \E m \in headMsgs' \ headMsgs :
                            /\ m.from = p /\ m.to = q /\ m.heads = {h}
                            /\ m.mode = [type |-> type, redundancy |-> 1,
                                         to |-> leaders]]_vars

\* an entry appended by a leader travels silently while an entry appended by
\* a peer that does not lead travels acknowledged
C25_Witness ==
    \E m \in headMsgs, n \in headMsgs :
        /\ m.mode.type = "SilentDelivery" /\ m.from \in m.mode.to
        /\ n.mode.type = "AcknowledgeDelivery" /\ n.from \notin n.mode.to

(***************************************************************************)
(* Claims on the distribution pass                                         *)
(***************************************************************************)
\* a step of peer p is a distribution pass over a gid with local heads
DistributePass(p) ==
    distributeQueued[p] /\ ~distributeQueued'[p] /\ HeadsOf(have[p]) # {}

\* the messages a step of peer p puts in flight for peer q
SentTo(p, q) == {m \in headMsgs' : m.from = p /\ m.to = q} \ headMsgs

\* the leaders of the gid as a pass of peer p computes them
PassLeaders(p) ==
    FindLeaders(p, CursorOf(GidOf(1)), MaxReplicasOf(HeadsOf(have[p])), now)

C27_RejectedRoleChangesNothing ==
    (gateLast # NoDecision /\ ~gateLast.returned /\ gateLast.from # gateLast.at) =>
        /\ gateLast.after = gateLast.before
        /\ RingRole(gateLast.after, gateLast.from) = RingRole(gateLast.before, gateLast.from)
        /\ gateLast.totalAfter = gateLast.totalBefore

\* the role message of a peer that has a range on the ring was turned away
\* with a new factor, and the ring holds the old range
C27_Witness ==
    /\ gateLast # NoDecision /\ ~gateLast.returned /\ gateLast.from # gateLast.at
    /\ RingRole(gateLast.before, gateLast.from) # NoRole
    /\ RingRole(gateLast.before, gateLast.from).factor # gateLast.role.factor
    /\ ring[gateLast.at] = gateLast.before
    /\ totalParticipation[gateLast.at] = gateLast.totalBefore

(***************************************************************************)
(* Claims on signed messages                                               *)
(***************************************************************************)
\* verifyMultiSig as the class of the message calls it: an ACK is verified
\* with seenCounter 0
MultiSig(message, expectSignatures) ==
    VerifyMultiSig(IF message.variant = ACKNOWLEDGE_VARIANT
                   THEN [message EXCEPT !.seenCounter = 0] ELSE message,
                   expectSignatures)

\* C28: a message signed by one or more signers verifies successfully, and
\* its verification result is unaffected by any later change of the
\* header's `to' list; signing leaves `to' as it was and keeps the
\* signatures added by earlier signers.
C28_SignedMessageVerifies ==
    /\ (Len(signedMsg.signatures.signatures) >= 1 /\ intact) =>
            \A expectSignatures \in BOOLEAN : MultiSig(signedMsg, expectSignatures)
    /\ signedMsg # NoMessage =>
            \A to \in ToLists, expectSignatures \in BOOLEAN :
                MultiSig([signedMsg EXCEPT !.to = to], expectSignatures)
                    = MultiSig(signedMsg, expectSignatures)
    /\ lastCall.op = "sign" =>
            LET before == lastCall.before.signatures.signatures
                after == lastCall.after.signatures.signatures
            IN /\ lastCall.after.to = lastCall.before.to
               /\ Len(after) = Len(before) + 1
               /\ SubSeq(after, 1, Len(before)) = before

\* two signers have signed the message and a relay has changed `to' since
C28_Witness ==
    /\ Len(signedMsg.signatures.signatures) = 2
    /\ signedMsg.signatures.signatures[1].publicKey
            # signedMsg.signatures.signatures[2].publicKey
    /\ intact
    /\ lastCall.op = "sign"
    /\ lastCall.before.to # <<>>
    /\ signedMsg.to # lastCall.after.to

\* what verify returns for a message that was just received
Verified(message, expectSignatures) ==
    VerifyOf([message EXCEPT !.verified = "null"], expectSignatures, now).verified

C30_WritesToShortestHop ==
    LET t == lastWrite.target
        known == {r.hash : r \in lastWrite.routes} \cup ({t} \cap lastWrite.neighbours)
    IN (lastWrite.op = "publish" /\ Cardinality(known) >= 2) =>
            /\ Cardinality(lastWrite.written) = 1
            /\ t \in lastWrite.neighbours => lastWrite.written = {t}
            /\ t \notin lastWrite.neighbours =>
                    \E r \in lastWrite.routes :
                        /\ lastWrite.written = {r.hash}
                        /\ \A o \in lastWrite.routes : r.distance <= o.distance
            /\ (/\ t \notin lastWrite.neighbours
                /\ lastWrite.learned \in lastWrite.routes
                /\ \A o \in lastWrite.routes \ {lastWrite.learned} :
                        lastWrite.learned.distance < o.distance) =>
                    lastWrite.written = {lastWrite.learned.hash}

\* the sender knew the path to node 4 through node 2, a stream to node 3
\* was added, a seek has learned the shorter path through it, and the
\* message was written to node 3 alone
C30_Witness ==
    /\ lastWrite.op = "publish"
    /\ lastWrite.target = 4
    /\ {1, 3} \in edges
    /\ lastWrite.learned = [hash |-> 3, distance |-> 1]
    /\ \E o \in lastWrite.routes : o.hash = 2 /\ o.distance > 1
    /\ lastWrite.written = {3}

(***************************************************************************)
(* Claims on the cover set                                                 *)
(***************************************************************************)
\* the sum of the factors the ring holds for a set of keys
CoverTotal(peers, keys) ==
    RingTotal(SelectSeq(peers, LAMBDA rect : rect.publicKey \in keys))

\* C31: for every ring and every starting replicator, the cover set
\* returned has a total of per-peer factors at least as large as the
\* required cover width whenever the ring contains a mature replicator, and
\* otherwise includes every peer of the ring.
C31_CoverSetReachesWidth ==
    lastCover.start # 0 =>
        IF \E i \in 1..Len(lastCover.ring) :
                IsMatured(lastCover.ring[i], lastCover.time, lastCover.roleAge)
        THEN CoverTotal(lastCover.ring, lastCover.set) * lastCover.minReplicas >= Width
        ELSE lastCover.set = {lastCover.ring[i].publicKey : i \in 1..Len(lastCover.ring)}

(***************************************************************************)
(* Claims on the leaders of a ring that is not empty                       *)
(***************************************************************************)
\* C33: whenever the ring contains at least one replicator and the
\* requested replica count is at least 1, findLeaders on an open log
\* returns a non-empty leader set for every gid (in particular a sole
\* replicator is always a leader, mature or not); it returns the empty set
\* only when the ring is empty.
C33_LeadersOfNonEmptyRing ==
    (lastEval # NoEval /\ lastEval.replicas >= 1) =>
        /\ (lastEval.leaders = {}) = (Len(lastEval.ring) = 0)
        /\ Len(lastEval.ring) = 1 => lastEval.leaders = {lastEval.ring[1].publicKey}

\* the ring holds one replicator, which is not matured and whose range does
\* not cover the point of the gid, and findLeaders has returned it
C33_Witness ==
    /\ lastEval # NoEval
    /\ Len(lastEval.ring) = 1
    /\ ~IsMatured(lastEval.ring[1], lastEval.time, lastEval.roleAge)
    /\ ~Covers(lastEval.ring[1], lastEval.cursor)
    /\ lastEval.leaders = {lastEval.ring[1].publicKey}

(***************************************************************************)
(* Claims on the total participation                                       *)
(***************************************************************************)
\* C36: after any sequence of replicator insertions, updates and removals
\* on an open log, totalParticipation equals the sum of the factors of the
\* ranges currently in the ring.
C36_TotalParticipationIsRingTotal ==
    \A p \in Peers :
        (openTime[p] # -1 /\ ~closed[p]) => totalParticipation[p] = RingTotal(ring[p])

\* the range of a peer in the ring of another was replaced by one of a
\* different factor, after ranges were inserted, and the total is the sum
C36_Witness ==
    /\ gateLast # NoDecision
    /\ gateLast.returned
    /\ gateLast.from # gateLast.at
    /\ RingRole(gateLast.before, gateLast.from) # NoRole
    /\ RingRole(gateLast.before, gateLast.from).factor # gateLast.role.factor
    /\ Len(gateLast.after) = 2
    /\ ring[gateLast.at] = gateLast.after
    /\ totalParticipation[gateLast.at] = RingTotal(gateLast.after)
    /\ gateLast.totalBefore # gateLast.totalAfter

(***************************************************************************)
(* Claims on traverse                                                      *)
(***************************************************************************)
\* the entries of the log reachable from the roots through next links
RECURSIVE ReachableFrom(_, _)
ReachableFrom(log, S) ==
    LET more == S \cup {n \in UNION {e.next : e \in S} : n \in log.entries}
    IN IF more = S THEN S ELSE ReachableFrom(log, more)

\* C37: traverse(roots, amount) with amount >= 0 returns exactly
\* min(amount, number of entries reachable from the roots through next
\* links) distinct entries, for any set of roots including roots that are
\* ancestors of other roots; with a negative amount it returns every
\* reachable entry and terminates.
C37_TraverseReturnsAmount ==
    lastTraverse # NoTraverse =>
        LET reachable == ReachableFrom(lastTraverse.log, lastTraverse.roots)
            returned == SeqToSet(lastTraverse.result)
        IN /\ returned \subseteq reachable
           /\ IF lastTraverse.amount >= 0
              THEN Cardinality(returned) = Min2(lastTraverse.amount, Cardinality(reachable))
              ELSE returned = reachable

(***************************************************************************)
(* Claims on Entry.compare                                                 *)
(***************************************************************************)
\* the arrays that hold the same entries as s
SameEntries(s) == {t \in PoolArrays : Len(t) = Len(s) /\ SeqToSet(t) = SeqToSet(s)}

\* C38: Entry.compare is a total order by Lamport time with ties broken by
\* clock id: for all entries a and b, compare(a, b) = -compare(b, a), and
\* compare is transitive, so sorting a fixed set of entries always yields
\* the same sequence.
C38_CompareIsTotalOrder ==
    /\ lastCompare.called =>
            /\ lastCompare.ab = -lastCompare.ba
            /\ \A c \in EntryPool :
                    (lastCompare.ab < 0 /\ EntryCompare(lastCompare.b, c) < 0) =>
                        EntryCompare(lastCompare.a, c) < 0
    /\ lastSort # NoSort =>
            \A t \in SameEntries(lastSort.input) : SortAsc(t) = lastSort.output

(***************************************************************************)
(* Claims on overlapping calls of the entry index                          *)
(***************************************************************************)
\* no call of put or delete is suspended
Completed == putHandlers = {} /\ deleteHandlers = {} /\ updaters = {}

\* C39: under any interleaving of put (with unique = false) and delete
\* calls on an EntryIndex, including a put and a delete of the same hash
\* that overlap, once all calls have completed the length equals the number
\* of entries stored in the index.
C39_LengthIsIndexSize ==
    Completed => length = Cardinality(index)

\* C40: an entry removed by EntryIndex.delete is not written back into the
\* index by the head-flag update of a concurrent put or delete of another
\* entry that lists it in its next set: after the delete and all
\* overlapping calls have completed, the index does not contain the deleted
\* hash unless a put of that hash itself was issued.
C40_DeletedStaysDeleted ==
    Completed =>
        \A k \in removed : ~putHistory.called[k] => ~IndexHas(index, k)

(***************************************************************************)
(* Claims on the promises of prune                                         *)
(***************************************************************************)
\* C34: prune(entries) returns, for every entry passed in, a promise that
\* settles only when that entry's deletion has completed or failed, also for
\* entries that already have a pending deletion from an earlier prune call,
\* for which the existing promise is reused and no second RequestIPrune is
\* sent: the promises returned are the deferred promises that are pending
\* for the entries after the call, one for every entry.
C34_PruneReturnsEveryPromise ==
    lastPrune.called =>
        lastPrune.promises = {<<h, lastPrune.pending[h]>> : h \in lastPrune.entries}

C32_EntryIsStoredSomewhere ==
    \A h \in Replicated : \E p \in Peers : h \in have[p]

====
